---- MODULE Spec2Model ----
(***************************************************************************)
(* A model of the content server node of rustafarian-content_server        *)
(* (src/src/content_server.rs): the event loop of ContentServer::run, the  *)
(* control-plane handlers, the fragment intake, the request processor and  *)
(* the outbound send, the ack / nack / resend engine and the flood engine. *)
(*                                                                         *)
(* Rust vectors are 0-indexed, TLA+ sequences 1-indexed: At(s, i) is the   *)
(* Rust s[i].  A handler is an operator from the node's state (a record of *)
(* the struct's fields) to the node's state; a Rust panic sets the field   *)
(* crashed and every later statement of the handler is skipped.            *)
(***************************************************************************)
EXTENDS Integers, Sequences, FiniteSets, TLC

\* ------------------------------------------------------------------ bounds
MaxNow == 2          \* the clock stops advancing here
MaxFiles == 2        \* files 1..MaxFiles are indexed; file f fills f fragments
MaxSession == 2      \* session ids 1..MaxSession
MaxRetained == 2     \* a request is offered only while its session retains fewer
MaxRand == 2         \* rand::random() draws from 1..MaxRand
MaxHandled == 3      \* the loop handles at most this many events
MaxEvents == 4       \* events of a run that follows one session
MaxLive == 2         \* events of a run that watches the select

\* --------------------------------------------------------------- constants
server_id == 1
Client == 21
TIMEOUT_BETWEEN_FLOODS_MS == 1

Drones == {2, 3}
NodeId == {server_id, Client} \cup Drones
Sessions == 1..MaxSession
FileIds == 1..MaxFiles
UnknownFile == MaxFiles + 1     \* an id the file index does not hold
Unreadable == MaxFiles + 2      \* an indexed file whose content cannot be read

\* ----------------------------------------------------------------- helpers
At(s, i) == s[i + 1]
Rev(s) == [i \in 1..Len(s) |-> s[Len(s) + 1 - i]]
Last(s) == s[Len(s)]
Dom(f) == DOMAIN f
MapPut(f, k, v) == [x \in Dom(f) \cup {k} |-> IF x = k THEN v ELSE f[x]]
MapDel(f, k) == [x \in Dom(f) \ {k} |-> f[x]]
EmptyMap == [x \in {} |-> {}]
Range(s) == {s[i] : i \in 1..Len(s)}

\* ---------------------------------------------------------------- topology
\* rustafarian_shared::topology::Topology: nodes and an adjacency map.
NewTopology == [nodes |-> {}, edges |-> EmptyMap]

add_node(t, n) ==
    IF n \in t.nodes THEN t
    ELSE [nodes |-> t.nodes \cup {n},
          edges |-> IF n \in Dom(t.edges) THEN t.edges ELSE MapPut(t.edges, n, {})]

Adj(t, n) == IF n \in Dom(t.edges) THEN t.edges[n] ELSE {}

add_edge(t, a, b) ==
    LET t1 == add_node(add_node(t, a), b)
        e1 == MapPut(t1.edges, a, Adj(t1, a) \cup {b})
        e2 == MapPut(e1, b, (IF b \in Dom(e1) THEN e1[b] ELSE {}) \cup {a})
    IN  [nodes |-> t1.nodes, edges |-> e2]

remove_edges(t, a, b) ==
    LET e1 == IF a \in Dom(t.edges) THEN MapPut(t.edges, a, t.edges[a] \ {b}) ELSE t.edges
        e2 == IF b \in Dom(e1) THEN MapPut(e1, b, e1[b] \ {a}) ELSE e1
    IN  [nodes |-> t.nodes, edges |-> e2]

remove_node(t, n) ==
    LET e1 == MapDel(t.edges, n)
    IN  [nodes |-> t.nodes \ {n},
         edges |-> [k \in Dom(e1) |-> e1[k] \ {n}]]

\* The graph build_server() of the tests sets up: 1 - 2 - 21.
TestTopology ==
    add_edge(add_edge(add_node(add_node(NewTopology, 2), Client), 2, Client),
             server_id, 2)

\* Paths of the graph from src to dst, as sequences of distinct nodes.
IsPath(t, p, src, dst) ==
    /\ p[1] = src
    /\ Last(p) = dst
    /\ \A i \in 1..(Len(p) - 1) : p[i + 1] \in Adj(t, p[i])
    /\ \A i, j \in 1..Len(p) : i # j => p[i] # p[j]

PathsOfLen(t, n, src, dst) ==
    {p \in [1..n -> NodeId] : IsPath(t, p, src, dst)}

\* p comes before q in the order of ascending neighbor id at the first
\* hop where they differ.
LexLess(p, q) ==
    \E i \in 1..Len(p) :
        /\ p[i] < q[i]
        /\ \A j \in 1..(i - 1) : p[j] = q[j]

RECURSIVE RouteOfLen(_, _, _, _)
RouteOfLen(t, n, src, dst) ==
    IF n > Cardinality(NodeId) THEN <<>>
    ELSE LET ps == PathsOfLen(t, n, src, dst)
         IN  IF ps = {} THEN RouteOfLen(t, n + 1, src, dst)
             ELSE CHOOSE p \in ps : \A q \in ps \ {p} : LexLess(p, q)

\* compute_route: the shortest path [src, .., dst], the empty vector when
\* there is none.
compute_route(t, src, dst) ==
    IF src \notin Dom(t.edges) \/ dst \notin Dom(t.edges) THEN <<>>
    ELSE RouteOfLen(t, 1, src, dst)

\* ------------------------------------------------------------------- state
VARIABLES
    senders,        \* ContentServer.senders: the ids with an installed channel
    topology,       \* ContentServer.topology
    sent_packets,   \* ContentServer.sent_packets: session id -> retained packets
    nack_queue,     \* ContentServer.nack_queue: session id -> queued Nacks
    flood_time,     \* ContentServer.flood_time
    assembler,      \* ContentServer.assembler: session id -> fragment indexes held
    server_type,    \* ContentServer.server_type
    crashed,        \* the node's thread has panicked
    pc,             \* position of run(): "start", "select", "handled", "drained"
    now,            \* the millisecond clock read by Utc::now()
    closed,         \* neighbor ids whose Receiver<Packet> has been dropped
    ctrl_closed,    \* the supervisor has dropped the response Receiver
    out,            \* neighbor id -> packets handed to its Sender::send by the
                    \* last handler, in order
    events,         \* what the last handler sent on sim_controller_sender
    ev,             \* the event the last handler was given
    handled,        \* how many events the loop has handled
    sim_controller_receiver,
                    \* commands waiting in sim_controller_receiver, oldest first
    receiver        \* packets waiting in receiver, oldest first

vars == <<senders, topology, sent_packets, nack_queue, flood_time, assembler,
          server_type, crashed, pc, now, closed, ctrl_closed, out, events, ev,
          handled, sim_controller_receiver, receiver>>

\* The fields a handler reads and writes, as one record.
St == [senders |-> senders, topology |-> topology, sent_packets |-> sent_packets,
       nack_queue |-> nack_queue, flood_time |-> flood_time,
       assembler |-> assembler, crashed |-> FALSE,
       out |-> [n \in Drones |-> <<>>], events |-> <<>>]

Commit(s) ==
    /\ senders' = s.senders
    /\ topology' = s.topology
    /\ sent_packets' = s.sent_packets
    /\ nack_queue' = s.nack_queue
    /\ flood_time' = s.flood_time
    /\ assembler' = s.assembler
    /\ crashed' = s.crashed
    /\ out' = s.out
    /\ events' = s.events

\* ----------------------------------------------------------------- packets
Packet(pack_type, session_id, hop_index, hops) ==
    [pack_type |-> pack_type, session_id |-> session_id,
     routing_header |-> [hop_index |-> hop_index, hops |-> hops]]

MsgFragment(fragment_index, total_n_fragments, data) ==
    [kind |-> "MsgFragment", fragment_index |-> fragment_index,
     total_n_fragments |-> total_n_fragments, data |-> data]
AckOf(fragment_index) == [kind |-> "Ack", fragment_index |-> fragment_index]
NackOf(fragment_index, nack_type) ==
    [kind |-> "Nack", fragment_index |-> fragment_index, nack_type |-> nack_type]
FloodRequestOf(flood_id, initiator_id, path_trace) ==
    [kind |-> "FloodRequest", flood_id |-> flood_id,
     initiator_id |-> initiator_id, path_trace |-> path_trace]
FloodResponseOf(flood_id, path_trace) ==
    [kind |-> "FloodResponse", flood_id |-> flood_id, path_trace |-> path_trace]

Dropped == [t |-> "Dropped", node |-> 0]
ErrorInRouting(n) == [t |-> "ErrorInRouting", node |-> n]
DestinationIsDrone == [t |-> "DestinationIsDrone", node |-> 0]
UnexpectedRecipient(n) == [t |-> "UnexpectedRecipient", node |-> n]

\* Disassembler::disassemble_message: the fragments 0..n-1 of a message of
\* n fragments.
disassemble_message(message) ==
    [i \in 1..message.size |-> MsgFragment(i - 1, message.size, message.body)]

\* --------------------------------------------------- sends and panics
Panic(s) == [s EXCEPT !.crashed = TRUE]

\* Sender::send on the channel of neighbor `to`.
Send(s, to, packet) == [s EXCEPT !.out[to] = Append(@, packet)]

\* sender.send(packet).unwrap(): panics when the receiver is gone.
SendUnwrap(s, to, packet) ==
    IF to \in closed THEN Panic(Send(s, to, packet)) ELSE Send(s, to, packet)

\* let _res = self.sim_controller_sender.send(..): the result is ignored.
Notify(s, event) == [s EXCEPT !.events = Append(@, event)]

PacketSent(s, packet) ==
    Notify(s, [kind |-> "PacketSent", session_id |-> packet.session_id,
               packet_type |-> packet.pack_type.kind])

\* ------------------------------------------------------- control plane
\* handle_add_sender as it would be if only the channel were installed.
handle_add_sender_channel_only(s, id) ==
    [s EXCEPT !.senders = @ \cup {id}]

\* handle_add_sender as it would be if it wrote the neighbor into the
\* adjacency of self alone.
handle_add_sender_one_way(s, id) ==
    LET t == add_node(add_node(s.topology, server_id), id)
    IN  [s EXCEPT !.senders = @ \cup {id},
                  !.topology = [t EXCEPT !.edges[server_id] = @ \cup {id}]]

handle_add_sender(s, id) ==
    [s EXCEPT !.senders = @ \cup {id},
              !.topology = add_edge(@, server_id, id)]

\* handle_remove_sender as it would be if the node left the graph.
handle_remove_sender_node(s, id) ==
    [s EXCEPT !.senders = @ \ {id},
              !.topology = remove_node(@, id)]

handle_remove_sender(s, id) ==
    [s EXCEPT !.senders = @ \ {id},
              !.topology = remove_edges(@, server_id, id)]

\* handle_topology_request as it would be if the graph were handed over
\* rather than cloned.
handle_topology_request_taken(s) ==
    LET s1 == Notify(s, [kind |-> "TopologyResponse", topology |-> s.topology])
    IN  IF ctrl_closed THEN Panic(s1) ELSE [s1 EXCEPT !.topology = NewTopology]

\* self.sim_controller_sender.send(topology_response).unwrap()
handle_topology_request(s) ==
    LET s1 == Notify(s, [kind |-> "TopologyResponse", topology |-> s.topology])
    IN  IF ctrl_closed THEN Panic(s1) ELSE s1

handle_sim_controller_packets(s, command) ==
    CASE command.kind = "AddSender" -> handle_add_sender(s, command.id)
      [] command.kind = "RemoveSender" -> handle_remove_sender(s, command.id)
      [] command.kind = "Topology" -> handle_topology_request(s)
      [] OTHER -> s

\* --------------------------------------------------------- flood engine
\* `rnd` gives, per neighbor, the values rand::random() returns for the
\* packet built for it; `order` is the iteration order of the senders map.
RECURSIVE FloodTo(_, _, _)
FloodTo(s, order, rnd) ==
    IF s.crashed \/ order = <<>> THEN s
    ELSE LET n == Head(order)
             packet == Packet(FloodRequestOf(rnd[n].flood_id, server_id,
                                             <<<<server_id, "Server">>>>),
                              rnd[n].session_id, 1, <<>>)
         IN  FloodTo(SendUnwrap(s, n, packet), Tail(order), rnd)

\* send_flood_request as it would be without the cooldown.
send_flood_request_always(s, order, rnd) ==
    IF s.crashed THEN s
    ELSE FloodTo([s EXCEPT !.flood_time = now], order, rnd)

\* send_flood_request as it would be if it stopped after one neighbor.
send_flood_request_once(s, order, rnd) ==
    IF s.crashed THEN s
    ELSE IF s.flood_time + TIMEOUT_BETWEEN_FLOODS_MS > now THEN s
    ELSE FloodTo([s EXCEPT !.flood_time = now], SubSeq(order, 1, 1), rnd)

send_flood_request(s, order, rnd) ==
    IF s.crashed THEN s
    ELSE IF s.flood_time + TIMEOUT_BETWEEN_FLOODS_MS > now THEN s
    ELSE FloodTo([s EXCEPT !.flood_time = now], order, rnd)

RECURSIVE RelayTo(_, _, _, _)
RelayTo(s, order, sender_id, response) ==
    IF s.crashed \/ order = <<>> THEN s
    ELSE LET n == Head(order)
             s1 == IF n # sender_id THEN SendUnwrap(s, n, response) ELSE s
         IN  RelayTo(s1, Tail(order), sender_id, response)

\* on_flood_request as it would be if the request also went back to the
\* neighbor it came from.
on_flood_request_all(s, packet, order) ==
    LET request == packet.pack_type
    IN  IF request.path_trace = <<>> THEN Panic(s)
        ELSE RelayTo(s, order, server_id,
                     Packet([request EXCEPT
                                 !.path_trace = Append(@, <<server_id, "Server">>)],
                            packet.session_id, 0, <<>>))

\* on_flood_request as it would be if the node, like a drone, answered the
\* neighbor the request came from when it has no other neighbor to relay to.
on_flood_request_replies(s, packet, order) ==
    LET request == packet.pack_type
    IN  IF request.path_trace = <<>> THEN Panic(s)
        ELSE LET sender_id == Last(request.path_trace)[1]
                 incremented ==
                     [request EXCEPT !.path_trace = Append(@, <<server_id, "Server">>)]
                 response == Packet(incremented, packet.session_id, 0, <<>>)
             IN  IF s.senders \ {sender_id} = {} /\ sender_id \in s.senders
                 THEN SendUnwrap(s, sender_id,
                                 Packet(FloodResponseOf(request.flood_id,
                                                        incremented.path_trace),
                                        packet.session_id, 1,
                                        <<server_id, sender_id>>))
                 ELSE RelayTo(s, order, sender_id, response)

on_flood_request(s, packet, order) ==
    LET request == packet.pack_type
    IN  IF request.path_trace = <<>> THEN Panic(s)
        ELSE LET sender_id == Last(request.path_trace)[1]
                 incremented ==
                     [request EXCEPT !.path_trace = Append(@, <<server_id, "Server">>)]
                 response == Packet(incremented, packet.session_id, 0, <<>>)
             IN  RelayTo(s, order, sender_id, response)

\* The loop over path_trace as it would be if an edge were entered in one
\* direction only.
RECURSIVE AbsorbTraceOneWay(_, _, _)
AbsorbTraceOneWay(s, path_trace, i) ==
    IF s.crashed \/ i >= Len(path_trace) THEN s
    ELSE LET node == At(path_trace, i)[1]
             t1 == add_node(s.topology, node)
             t2 == IF i = 0 THEN t1
                   ELSE [t1 EXCEPT !.edges[node] = @ \cup {At(path_trace, i - 1)[1]}]
         IN  AbsorbTraceOneWay([s EXCEPT !.topology = t2], path_trace, i + 1)

\* The loop over path_trace of on_flood_response, from position i (0-based).
RECURSIVE AbsorbTrace(_, _, _)
AbsorbTrace(s, path_trace, i) ==
    IF s.crashed \/ i >= Len(path_trace) THEN s
    ELSE LET node == At(path_trace, i)[1]
             t1 == IF node \notin s.topology.nodes
                   THEN add_node(s.topology, node) ELSE s.topology
             s1 == [s EXCEPT !.topology = t1]
         IN  IF i = 0 THEN AbsorbTrace(s1, path_trace, i + 1)
             ELSE LET prev == At(path_trace, i - 1)[1]
                  IN  IF node \notin Dom(t1.edges) THEN Panic(s1)
                      ELSE IF prev \in t1.edges[node]
                      THEN AbsorbTrace(s1, path_trace, i + 1)
                      ELSE AbsorbTrace(
                               [s1 EXCEPT !.topology =
                                    add_edge(add_edge(t1, prev, node), node, prev)],
                               path_trace, i + 1)

\* on_flood_response as it would be if a foreign reply were forwarded as
\* it was received.
on_flood_response_as_received(s, packet) ==
    LET header == packet.routing_header
    IN  IF header.hop_index + 1 < Len(header.hops)
           /\ At(header.hops, header.hop_index + 1) \in s.senders
        THEN Send(s, At(header.hops, header.hop_index + 1), packet)
        ELSE s

on_flood_response(s, packet) ==
    LET flood_response == packet.pack_type
        header == packet.routing_header
        first == IF flood_response.path_trace = <<>> THEN 0
                 ELSE Head(flood_response.path_trace)[1]
    IN  IF first # server_id
        THEN IF header.hop_index + 1 < Len(header.hops)
             THEN LET next_hop == At(header.hops, header.hop_index + 1)
                      forward_packet == Packet(flood_response, packet.session_id,
                                               header.hop_index + 1, header.hops)
                  IN  IF next_hop \in s.senders
                      THEN Send(s, next_hop, forward_packet) ELSE s
             ELSE s
        ELSE LET s1 == AbsorbTrace(s, flood_response.path_trace, 0)
             IN  IF s1.crashed THEN s1
                 ELSE Notify(s1, [kind |-> "FloodResponse",
                                  flood_id |-> flood_response.flood_id])

\* ----------------------------------------------------- outbound send
Retained(s, session_id) ==
    IF session_id \in Dom(s.sent_packets) THEN s.sent_packets[session_id] ELSE <<>>

\* send_message as it would be if the response kept the inbound hops.
send_message_inbound(s, destination_id, message, session_id, route) ==
    LET packet == Packet(Head(disassemble_message(message)), session_id, 1, route)
        drone_id == At(route, Len(route) - 2)
    IN  IF Len(route) < 2 THEN Panic(s)
        ELSE IF drone_id \in s.senders
        THEN PacketSent(SendUnwrap(s, drone_id, packet), packet) ELSE s

\* send_message as it would be if a fragment were retained once it is sent.
send_message_sent_only(s, destination_id, message, session_id, route) ==
    LET packet == Packet(Head(disassemble_message(message)), session_id, 1, Rev(route))
        drone_id == At(packet.routing_header.hops, 1)
    IN  IF Len(route) < 2 THEN Panic(s)
        ELSE IF drone_id \in s.senders
        THEN PacketSent(
                 SendUnwrap([s EXCEPT !.sent_packets =
                                 MapPut(@, session_id,
                                        Append(Retained(s, session_id), packet))],
                            drone_id, packet),
                 packet)
        ELSE s

\* The loop of send_message over the fragments still to send.
RECURSIVE SendFragments(_, _, _, _)
SendFragments(s, fragments, session_id, route) ==
    IF s.crashed \/ fragments = <<>> THEN s
    ELSE LET packet == Packet(Head(fragments), session_id, 1, Rev(route))
             s1 == [s EXCEPT !.sent_packets =
                        MapPut(@, session_id, Append(Retained(s, session_id), packet))]
         IN  IF Len(packet.routing_header.hops) < 2 THEN Panic(s1)
             ELSE LET drone_id == At(packet.routing_header.hops, 1)
                      s2 == IF drone_id \in s1.senders
                            THEN LET s3 == SendUnwrap(s1, drone_id, packet)
                                 IN  IF s3.crashed THEN s3 ELSE PacketSent(s3, packet)
                            ELSE s1
                  IN  SendFragments(s2, Tail(fragments), session_id, route)

\* send_message as it would be if the fragments were sent last first.
send_message_last_first(s, destination_id, message, session_id, route) ==
    SendFragments(s, Rev(disassemble_message(message)), session_id, route)

send_message(s, destination_id, message, session_id, route) ==
    SendFragments(s, disassemble_message(message), session_id, route)

\* ------------------------------------------------- request processor
\* ContentServer.files and ContentServer.media, filled by new() for the
\* server's type: file id -> the number of fragments its response fills.
IndexedIds == FileIds \cup {Unreadable}
files == IF server_type = "Text" THEN IndexedIds ELSE {}
media == IF server_type = "Media" THEN IndexedIds ELSE {}
ResponseSize(id) == id

handle_files_list(s, source_id, session_id, route) ==
    LET file_ids == IF server_type = "Text" THEN files ELSE media
    IN  send_message(s, source_id,
                     [size |-> 1, body |-> [kind |-> "FileList", ids |-> file_ids]],
                     session_id, route)

\* handle_file_request as it would be if an id missing from the index were
\* served like the first file.
handle_file_request_default(s, id, source_id, session_id, route) ==
    IF id = Unreadable THEN s
    ELSE send_message(s, source_id,
                      [size |-> ResponseSize(IF id \in files THEN id ELSE 1),
                       body |-> [kind |-> "TextFile", id |-> id]],
                      session_id, route)

handle_file_request(s, id, source_id, session_id, route) ==
    IF id \in files
    THEN IF id = Unreadable THEN s
         ELSE send_message(s, source_id,
                           [size |-> ResponseSize(id),
                            body |-> [kind |-> "TextFile", id |-> id]],
                           session_id, route)
    ELSE s

handle_media_request(s, id, source_id, session_id, route) ==
    IF id \in media
    THEN IF id = Unreadable THEN s
         ELSE send_message(s, source_id,
                           [size |-> ResponseSize(id),
                            body |-> [kind |-> "MediaFile", id |-> id]],
                           session_id, route)
    ELSE s

handle_type_request(s, source_id, session_id, route) ==
    send_message(s, source_id,
                 [size |-> 1, body |-> [kind |-> "ServerType", value |-> server_type]],
                 session_id, route)

\* process_request as it would be if media files were never served.
process_request_text_only(s, source_id, session_id, request, route) ==
    CASE request.kind = "FileList" ->
             handle_files_list(s, source_id, session_id, route)
      [] request.kind = "TextFileRequest" ->
             IF server_type = "Text"
             THEN handle_file_request(s, request.id, source_id, session_id, route)
             ELSE s
      [] request.kind = "ServerTypeRequest" ->
             handle_type_request(s, source_id, session_id, route)
      [] OTHER -> s

process_request(s, source_id, session_id, request, route) ==
    CASE request.kind = "FileList" ->
             handle_files_list(s, source_id, session_id, route)
      [] request.kind = "TextFileRequest" ->
             IF server_type = "Text"
             THEN handle_file_request(s, request.id, source_id, session_id, route)
             ELSE s
      [] request.kind = "MediaFileRequest" ->
             IF server_type = "Media"
             THEN handle_media_request(s, request.id, source_id, session_id, route)
             ELSE s
      [] request.kind = "ServerTypeRequest" ->
             handle_type_request(s, source_id, session_id, route)
      [] OTHER -> s

\* ------------------------------------------------------ fragment intake
\* send_ack as it would be if the Ack were routed through the graph.
send_ack_routed(s, fragment_index, session_id, routing_header) ==
    LET hops == IF routing_header = <<>> THEN <<>>
                ELSE compute_route(s.topology, server_id, Head(routing_header))
        packet == Packet(AckOf(fragment_index), session_id, 1, hops)
    IN  IF Len(hops) < 2 THEN s
        ELSE IF At(hops, 1) \in s.senders
        THEN SendUnwrap(s, At(hops, 1), packet) ELSE s

send_ack(s, fragment_index, session_id, routing_header) ==
    LET packet == Packet(AckOf(fragment_index), session_id, 1, Rev(routing_header))
    IN  IF Len(packet.routing_header.hops) < 2 THEN Panic(s)
        ELSE LET drone_id == At(packet.routing_header.hops, 1)
             IN  IF drone_id \in s.senders
                 THEN SendUnwrap(s, drone_id, packet) ELSE s

\* Assembler::add_fragment: the indexes held for the session, and whether
\* the fragment completes its message.
Held(s, session_id) ==
    IF session_id \in Dom(s.assembler) THEN s.assembler[session_id] ELSE {}

\* The MsgFragment arm as it would be if the fragment were assembled and
\* answered before it is acked.
on_fragment_ack_last(s, packet) ==
    LET fragment == packet.pack_type
        hops == packet.routing_header.hops
        held == Held(s, packet.session_id) \cup {fragment.fragment_index}
        s1 == IF Cardinality(held) = fragment.total_n_fragments
              THEN IF hops = <<>> THEN Panic(s)
                   ELSE process_request(
                            [s EXCEPT !.assembler = MapDel(@, packet.session_id)],
                            At(hops, 0), packet.session_id, fragment.data, hops)
              ELSE [s EXCEPT !.assembler = MapPut(@, packet.session_id, held)]
    IN  IF s1.crashed THEN s1
        ELSE send_ack(s1, fragment.fragment_index, packet.session_id, hops)

on_fragment(s, packet) ==
    LET fragment == packet.pack_type
        hops == packet.routing_header.hops
        s1 == send_ack(s, fragment.fragment_index, packet.session_id, hops)
    IN  IF s1.crashed THEN s1
        ELSE LET s2 == Notify(s1, [kind |-> "PacketReceived",
                                   session_id |-> packet.session_id])
                 held == Held(s2, packet.session_id) \cup {fragment.fragment_index}
             IN  IF Cardinality(held) = fragment.total_n_fragments
                 THEN LET s3 == [s2 EXCEPT !.assembler = MapDel(@, packet.session_id)]
                      IN  IF hops = <<>> THEN Panic(s3)
                          ELSE process_request(s3, At(hops, 0), packet.session_id,
                                               fragment.data, hops)
                 ELSE [s2 EXCEPT !.assembler = MapPut(@, packet.session_id, held)]

\* ------------------------------------------------- ack and retry engine
\* on_ack_arrived as it would be if an Ack released its whole session.
on_ack_arrived_session(s, packet) ==
    [s EXCEPT !.sent_packets = MapDel(@, packet.session_id)]

\* on_ack_arrived as it would be without the removal of an emptied session.
on_ack_arrived_keep_empty(s, packet) ==
    LET ack == packet.pack_type
        session_id == packet.session_id
    IN  IF session_id \in Dom(s.sent_packets)
        THEN LET Keep(p) == p.pack_type.fragment_index # ack.fragment_index
             IN  [s EXCEPT !.sent_packets[session_id] = SelectSeq(@, Keep)]
        ELSE s

on_ack_arrived(s, packet) ==
    LET ack == packet.pack_type
        session_id == packet.session_id
    IN  IF session_id \in Dom(s.sent_packets)
        THEN LET Keep(p) == p.pack_type.fragment_index # ack.fragment_index
                 fragments == SelectSeq(s.sent_packets[session_id], Keep)
             IN  IF fragments = <<>>
                 THEN [s EXCEPT !.sent_packets = MapDel(@, session_id)]
                 ELSE [s EXCEPT !.sent_packets[session_id] = fragments]
        ELSE s

Queued(s, session_id) ==
    IF session_id \in Dom(s.nack_queue) THEN s.nack_queue[session_id] ELSE <<>>

PushNack(s, session_id, nack) ==
    [s EXCEPT !.nack_queue = MapPut(@, session_id, Append(Queued(s, session_id), nack))]

\* Position (1-based) of the first retained packet of the session with the
\* fragment index, 0 when there is none.
FindPacket(packets, fragment_index) ==
    LET hits == {i \in 1..Len(packets) :
                    packets[i].pack_type.fragment_index = fragment_index}
    IN  IF hits = {} THEN 0 ELSE CHOOSE i \in hits : \A j \in hits : i <= j

\* session_to_remove without its first occurrence of session_id.
RemoveFirst(session_to_remove, session_id) ==
    LET hits == {i \in 1..Len(session_to_remove) : session_to_remove[i] = session_id}
    IN  IF hits = {} THEN session_to_remove
        ELSE LET pos == CHOOSE i \in hits : \A j \in hits : i <= j
             IN  SubSeq(session_to_remove, 1, pos - 1)
                     \o SubSeq(session_to_remove, pos + 1, Len(session_to_remove))

\* resend_packet: the state and session_to_remove after it.
resend_packet(s, fragment_index, session_id, session_to_remove, nack_type) ==
    LET same == [s |-> s, session_to_remove |-> session_to_remove]
    IN  IF s.crashed \/ session_id \notin Dom(s.sent_packets) THEN same
        ELSE LET packets == s.sent_packets[session_id]
                 pos == FindPacket(packets, fragment_index)
             IN  IF pos = 0 THEN same
                 ELSE IF packets[pos].routing_header.hops = <<>>
                 THEN [same EXCEPT !.s = Panic(s)]
                 ELSE
                 LET destination_id == Last(packets[pos].routing_header.hops)
                     new_routing == compute_route(s.topology, server_id, destination_id)
                     packet == [packets[pos] EXCEPT !.routing_header.hops = new_routing]
                     s1 == [s EXCEPT !.sent_packets[session_id][pos] = packet]
                     s2 == IF new_routing = <<>>
                           THEN PushNack(s1, session_id,
                                         [fragment_index |-> fragment_index,
                                          nack_type |-> nack_type])
                           ELSE s1
                     str == IF new_routing = <<>>
                            THEN RemoveFirst(session_to_remove, session_id)
                            ELSE session_to_remove
                 IN  IF Len(new_routing) < 2
                     THEN [s |-> Panic(s2), session_to_remove |-> str]
                     ELSE LET drone_id == At(new_routing, 1)
                          IN  [s |-> IF drone_id \in s2.senders
                                     THEN PacketSent(Send(s2, drone_id, packet), packet)
                                     ELSE s2,
                               session_to_remove |-> str]

\* on_nack_arrived as it would be if a Nack about a fragment that is not
\* retained were ignored.
on_nack_arrived_lookup(s, packet, order, rnd) ==
    LET nack == packet.pack_type
        queued == [fragment_index |-> nack.fragment_index,
                   nack_type |-> nack.nack_type]
    IN  IF FindPacket(Retained(s, packet.session_id), nack.fragment_index) = 0
        THEN s
        ELSE CASE nack.nack_type.t = "Dropped" ->
                      resend_packet(s, nack.fragment_index, packet.session_id,
                                    <<>>, nack.nack_type).s
               [] nack.nack_type.t = "ErrorInRouting" ->
                      send_flood_request(
                          [PushNack(s, packet.session_id, queued) EXCEPT
                               !.topology = remove_node(@, nack.nack_type.node)],
                          order, rnd)
               [] OTHER ->
                      send_flood_request(PushNack(s, packet.session_id, queued),
                                         order, rnd)

\* on_nack_arrived as it would be if ErrorInRouting left the graph alone.
on_nack_arrived_keep_node(s, packet, order, rnd) ==
    LET nack == packet.pack_type
        queued == [fragment_index |-> nack.fragment_index,
                   nack_type |-> nack.nack_type]
    IN  CASE nack.nack_type.t = "Dropped" ->
                 resend_packet(s, nack.fragment_index, packet.session_id,
                               <<>>, nack.nack_type).s
          [] OTHER ->
                 send_flood_request(PushNack(s, packet.session_id, queued), order, rnd)

\* on_nack_arrived as it would be if a queued Nack were pushed a second
\* time by the arm that floods.
on_nack_arrived_requeue(s, packet, order, rnd) ==
    LET nack == packet.pack_type
        queued == [fragment_index |-> nack.fragment_index,
                   nack_type |-> nack.nack_type]
    IN  CASE nack.nack_type.t = "Dropped" ->
                 resend_packet(s, nack.fragment_index, packet.session_id,
                               <<>>, nack.nack_type).s
          [] nack.nack_type.t = "ErrorInRouting" ->
                 send_flood_request(
                     [PushNack(s, packet.session_id, queued) EXCEPT
                          !.topology = remove_node(@, nack.nack_type.node)],
                     order, rnd)
          [] OTHER ->
                 send_flood_request(
                     PushNack(PushNack(s, packet.session_id, queued),
                              packet.session_id, queued),
                     order, rnd)

\* on_nack_arrived as it would be if a Dropped Nack took the drone that
\* reported it out of the graph before the resend.
on_nack_arrived_dropped_removes(s, packet, order, rnd) ==
    LET nack == packet.pack_type
        queued == [fragment_index |-> nack.fragment_index,
                   nack_type |-> nack.nack_type]
    IN  CASE nack.nack_type.t = "Dropped" ->
                 resend_packet([s EXCEPT !.topology =
                                    remove_node(@, At(packet.routing_header.hops, 0))],
                               nack.fragment_index, packet.session_id,
                               <<>>, nack.nack_type).s
          [] nack.nack_type.t = "ErrorInRouting" ->
                 send_flood_request(
                     [PushNack(s, packet.session_id, queued) EXCEPT
                          !.topology = remove_node(@, nack.nack_type.node)],
                     order, rnd)
          [] OTHER ->
                 send_flood_request(PushNack(s, packet.session_id, queued), order, rnd)

\* on_nack_arrived as it would be if a Nack that is neither Dropped nor
\* ErrorInRouting made the node give the session up.
on_nack_arrived_gives_up(s, packet, order, rnd) ==
    LET nack == packet.pack_type
        queued == [fragment_index |-> nack.fragment_index,
                   nack_type |-> nack.nack_type]
    IN  CASE nack.nack_type.t = "Dropped" ->
                 resend_packet(s, nack.fragment_index, packet.session_id,
                               <<>>, nack.nack_type).s
          [] nack.nack_type.t = "ErrorInRouting" ->
                 send_flood_request(
                     [PushNack(s, packet.session_id, queued) EXCEPT
                          !.topology = remove_node(@, nack.nack_type.node)],
                     order, rnd)
          [] OTHER ->
                 send_flood_request(
                     [s EXCEPT !.sent_packets = MapDel(@, packet.session_id)],
                     order, rnd)

on_nack_arrived(s, packet, order, rnd) ==
    LET nack == packet.pack_type
        queued == [fragment_index |-> nack.fragment_index,
                   nack_type |-> nack.nack_type]
    IN  CASE nack.nack_type.t = "Dropped" ->
                 resend_packet(s, nack.fragment_index, packet.session_id,
                               <<>>, nack.nack_type).s
          [] nack.nack_type.t = "ErrorInRouting" ->
                 send_flood_request(
                     [PushNack(s, packet.session_id, queued) EXCEPT
                          !.topology = remove_node(@, nack.nack_type.node)],
                     order, rnd)
          [] OTHER ->
                 send_flood_request(PushNack(s, packet.session_id, queued), order, rnd)

\* The first loop of resend_nacks_in_queue over the sessions still to
\* visit: every queued Nack is popped from the back of its list.
RECURSIVE CollectNacks(_, _)
CollectNacks(queue, sessions) ==
    IF sessions = <<>> THEN <<>>
    ELSE LET session_id == Head(sessions)
             nacks == queue[session_id]
         IN  [i \in 1..Len(nacks) |->
                  [fragment_index |-> nacks[Len(nacks) + 1 - i].fragment_index,
                   session_id |-> session_id,
                   nack_type |-> nacks[Len(nacks) + 1 - i].nack_type]]
             \o CollectNacks(queue, Tail(sessions))

RECURSIVE ResendAll(_, _)
ResendAll(r, resend_info) ==
    IF r.s.crashed \/ resend_info = <<>> THEN r
    ELSE LET e == Head(resend_info)
         IN  ResendAll(resend_packet(r.s, e.fragment_index, e.session_id,
                                     r.session_to_remove, e.nack_type),
                       Tail(resend_info))

\* `sessions` is the iteration order of the keys of nack_queue.
resend_nacks_in_queue(s, sessions) ==
    LET resend_info == CollectNacks(s.nack_queue, sessions)
        s1 == [s EXCEPT !.nack_queue = [k \in Dom(@) |-> <<>>]]
        r == ResendAll([s |-> s1, session_to_remove |-> sessions], resend_info)
    IN  IF r.s.crashed THEN r.s
        ELSE [r.s EXCEPT !.nack_queue =
                  [k \in Dom(@) \ Range(r.session_to_remove) |-> @[k]]]

\* --------------------------------------------------- packet dispatcher
handle_drone_packets(s, packet, order, rnd) ==
    CASE packet.pack_type.kind = "MsgFragment" -> on_fragment(s, packet)
      [] packet.pack_type.kind = "FloodResponse" -> on_flood_response(s, packet)
      [] packet.pack_type.kind = "FloodRequest" -> on_flood_request(s, packet, order)
      [] packet.pack_type.kind = "Ack" -> on_ack_arrived(s, packet)
      [] packet.pack_type.kind = "Nack" -> on_nack_arrived(s, packet, order, rnd)

\* ------------------------------------------------------------ the inputs
\* Iteration orders of a HashMap's keys: the sequences that list them once.
Orders(keys) ==
    {o \in [1..Cardinality(keys) -> keys] : \A i, j \in 1..Cardinality(keys) :
                                              i # j => o[i] # o[j]}

\* What rand::random() returns for the flood id and the session id of the
\* FloodRequest built for each neighbor.
Rand == [flood_id : 1..MaxRand, session_id : {0}]

Commands ==
    [kind : {"AddSender", "RemoveSender"}, id : Drones]
        \cup {[kind |-> "Topology", id |-> 0], [kind |-> "Other", id |-> 0]}

Requests ==
    {[kind |-> "FileList", id |-> 0], [kind |-> "ServerTypeRequest", id |-> 0],
     [kind |-> "Malformed", id |-> 0]}
        \cup [kind : {"TextFileRequest"}, id : IndexedIds \cup {UnknownFile}]
        \cup [kind : {"MediaFileRequest"}, id : {1}]

\* Inbound routes of fragments: client .. self, and one with a single hop.
InRoutes == {<<Client, 2, server_id>>, <<Client, 3, server_id>>, <<server_id>>}

\* Requests fit one fragment; a payload of two fragments is no request.
FragmentPackets ==
    {Packet(MsgFragment(0, 1, r), sid, Len(h) - 1, h) :
         r \in Requests, sid \in Sessions, h \in InRoutes}
        \cup {Packet(MsgFragment(i, 2, [kind |-> "Malformed", id |-> 0]),
                     MaxSession, 2, <<Client, 2, server_id>>) : i \in {0, 1}}

FragmentIndexes == 0..(MaxFiles - 1)

AckPackets ==
    {Packet(AckOf(i), sid, 1, <<2, server_id>>) :
         i \in FragmentIndexes, sid \in Sessions}

NackTypes ==
    {Dropped, DestinationIsDrone, UnexpectedRecipient(2)}
        \cup {ErrorInRouting(n) : n \in Drones}

NackPackets ==
    {Packet(NackOf(i, k), sid, 1, <<2, server_id>>) :
         i \in FragmentIndexes, k \in NackTypes, sid \in Sessions}

FloodRequestPackets ==
    {Packet(FloodRequestOf(1, Client, trace), 1, 0, <<>>) :
         trace \in {<<<<Client, "Client">>, <<2, "Drone">>>>,
                    <<<<Client, "Client">>, <<3, "Drone">>>>,
                    <<>>}}

\* Replies to this node's own floods, and one in transit to the client.
FloodResponsePackets ==
    {Packet(FloodResponseOf(1, <<<<server_id, "Server">>, <<d, "Drone">>,
                                 <<Client, "Client">>>>),
            1, 2, <<Client, d, server_id>>) : d \in Drones}
        \cup {Packet(FloodResponseOf(1, <<<<Client, "Client">>, <<2, "Drone">>,
                                          <<server_id, "Server">>, <<3, "Drone">>>>),
                     1, 1, <<3, server_id, 2, Client>>)}

\* ------------------------------------------------------------- actions
NoOut == [n \in Drones |-> <<>>]

Init ==
    /\ senders \in {{2}, Drones}
    /\ topology \in {NewTopology, TestTopology}
    /\ sent_packets = EmptyMap
    /\ nack_queue = EmptyMap
    /\ flood_time = 0
    /\ assembler = EmptyMap
    /\ server_type \in {"Text", "Media"}
    /\ crashed = FALSE
    /\ pc = "start"
    /\ now = TIMEOUT_BETWEEN_FLOODS_MS
    /\ closed = {}
    /\ ctrl_closed = FALSE
    /\ out = NoOut
    /\ events = <<>>
    /\ ev = [kind |-> "New"]
    /\ handled = 0
    /\ sim_controller_receiver = <<>>
    /\ receiver = <<>>

WithinBounds(s) ==
    \A sid \in Dom(s.sent_packets) : Len(s.sent_packets[sid]) <= MaxRetained

\* Whether send_flood_request would go past the cooldown: the random draws
\* and the iteration order are read only then.
Floods == ~(flood_time + TIMEOUT_BETWEEN_FLOODS_MS > now)

\* run(), before the loop: the first flood.
Start ==
    /\ pc = "start"
    /\ \E order \in Orders(senders), rnd \in [senders -> Rand] :
           Commit(send_flood_request(St, order, rnd))
    /\ pc' = "handled"
    /\ ev' = [kind |-> "Start"]
    /\ UNCHANGED <<server_type, now, closed, ctrl_closed, handled>>
    /\ UNCHANGED <<sim_controller_receiver, receiver>>

\* select_biased!, first arm: a command of the simulation controller.
RecvCommand ==
    /\ pc = "select" /\ handled < MaxHandled
    /\ \E command \in Commands :
           /\ Commit(handle_sim_controller_packets(St, command))
           /\ ev' = [kind |-> "Command", command |-> command]
           /\ closed' = IF command.kind = "AddSender"
                        THEN closed \ {command.id} ELSE closed
    /\ pc' = "handled"
    /\ handled' = handled + 1
    /\ UNCHANGED <<server_type, now, ctrl_closed>>
    /\ UNCHANGED <<sim_controller_receiver, receiver>>

\* select_biased!, second arm: a packet of a neighbor.
Recv(packet, order, rnd) ==
    /\ pc = "select" /\ handled < MaxHandled
    /\ LET s == handle_drone_packets(St, packet, order, rnd)
       IN  WithinBounds(s) /\ Commit(s)
    /\ ev' = [kind |-> "Packet", packet |-> packet]
    /\ pc' = "handled"
    /\ handled' = handled + 1
    /\ UNCHANGED <<server_type, now, closed, ctrl_closed>>
    /\ UNCHANGED <<sim_controller_receiver, receiver>>

AnyOrder == CHOOSE order \in Orders(senders) : TRUE
AnyRand == [n \in senders |-> CHOOSE r \in Rand : TRUE]

RecvFragment == \E packet \in FragmentPackets : Recv(packet, AnyOrder, AnyRand)

RecvAck == \E packet \in AckPackets : Recv(packet, AnyOrder, AnyRand)

RecvNack ==
    \E packet \in NackPackets :
        IF Floods /\ packet.pack_type.nack_type.t # "Dropped"
        THEN \E order \in Orders(senders), rnd \in [senders -> Rand] :
                 Recv(packet, order, rnd)
        ELSE Recv(packet, AnyOrder, AnyRand)

RecvFloodRequest ==
    \E packet \in FloodRequestPackets, order \in Orders(senders) :
        Recv(packet, order, AnyRand)

RecvFloodResponse ==
    \E packet \in FloodResponsePackets : Recv(packet, AnyOrder, AnyRand)

\* run(), after the select: if !self.nack_queue.is_empty() { .. }
Drain ==
    /\ pc = "handled" /\ ~crashed /\ nack_queue # EmptyMap
    /\ \E sessions \in Orders(Dom(nack_queue)) :
           Commit(resend_nacks_in_queue(St, sessions))
    /\ pc' = "drained"
    /\ ev' = [ev EXCEPT !.kind = "Drain"]
    /\ UNCHANGED <<server_type, now, closed, ctrl_closed, handled>>
    /\ UNCHANGED <<sim_controller_receiver, receiver>>

\* run(): back to the select.
Loop ==
    /\ ~crashed
    /\ \/ pc = "handled" /\ nack_queue = EmptyMap
       \/ pc = "drained"
    /\ pc' = "select"
    /\ out' = NoOut
    /\ events' = <<>>
    /\ ev' = [kind |-> "None"]
    /\ UNCHANGED <<senders, topology, sent_packets, nack_queue, flood_time,
                   assembler, server_type, crashed, now, closed, ctrl_closed,
                   handled>>
    /\ UNCHANGED <<sim_controller_receiver, receiver>>

\* The environment: time passes.
Env ==
    /\ pc = "select"
    /\ UNCHANGED <<senders, topology, sent_packets, nack_queue, flood_time,
                   assembler, server_type, crashed, pc, out, events, ev, handled>>
    /\ UNCHANGED <<sim_controller_receiver, receiver>>

Tick ==
    /\ now < MaxNow
    /\ now' = now + 1
    /\ Env
    /\ UNCHANGED <<closed, ctrl_closed>>

\* The environment: a neighbor, or the supervisor, drops the receiving side
\* of a channel. The run counts it among the events it is bounded by.
CloseChannel ==
    /\ pc = "select" /\ handled < MaxHandled
    /\ \E n \in senders \ closed : closed' = closed \cup {n}
    /\ handled' = handled + 1
    /\ UNCHANGED <<senders, topology, sent_packets, nack_queue, flood_time,
                   assembler, server_type, crashed, pc, now, ctrl_closed, out,
                   events, ev>>
    /\ UNCHANGED <<sim_controller_receiver, receiver>>

CloseCtrl ==
    /\ pc = "select" /\ handled < MaxHandled
    /\ ~ctrl_closed
    /\ ctrl_closed' = TRUE
    /\ handled' = handled + 1
    /\ UNCHANGED <<senders, topology, sent_packets, nack_queue, flood_time,
                   assembler, server_type, crashed, pc, now, closed, out,
                   events, ev>>
    /\ UNCHANGED <<sim_controller_receiver, receiver>>

Next ==
    \/ Start
    \/ RecvCommand
    \/ RecvFragment
    \/ RecvAck
    \/ RecvNack
    \/ RecvFloodRequest
    \/ RecvFloodResponse
    \/ Drain
    \/ Loop
    \/ Tick

Spec == Init /\ [][Next]_vars

\* The run with receivers that may be dropped.
NextFaults ==
    \/ Next
    \/ CloseChannel
    \/ CloseCtrl

SpecFaults == Init /\ [][NextFaults]_vars

\* ---------------------------------------------- the select, with queues
\* The run with the two receivers as queues: messages arrive while the node
\* is anywhere in its loop, and the select takes the head of one of them.
ArrivingPackets ==
    {packet \in FragmentPackets :
         /\ packet.session_id = 1
         /\ packet.pack_type.data.kind = "FileList"
         /\ Len(packet.routing_header.hops) >= 2}
        \cup {packet \in AckPackets :
                  packet.session_id = 1 /\ packet.pack_type.fragment_index = 0}
        \cup {packet \in NackPackets :
                  /\ packet.session_id = 1
                  /\ packet.pack_type.fragment_index = 0
                  /\ packet.pack_type.nack_type = ErrorInRouting(2)}

\* The run is bounded by the messages it is given: handled or waiting.
MayArrive == handled + Len(sim_controller_receiver) + Len(receiver) < MaxHandled

ArriveCommand ==
    /\ MayArrive
    /\ \E command \in Commands :
           sim_controller_receiver' = Append(sim_controller_receiver, command)
    /\ UNCHANGED <<senders, topology, sent_packets, nack_queue, flood_time,
                   assembler, server_type, crashed, pc, now, closed, ctrl_closed,
                   out, events, ev, handled, receiver>>

ArrivePacket ==
    /\ MayArrive
    /\ \E packet \in ArrivingPackets : receiver' = Append(receiver, packet)
    /\ UNCHANGED <<senders, topology, sent_packets, nack_queue, flood_time,
                   assembler, server_type, crashed, pc, now, closed, ctrl_closed,
                   out, events, ev, handled, sim_controller_receiver>>

\* select_biased! as it would be with the arm of the drones written first.
select_biased_packets_first(commands, packets) ==
    IF packets # <<>> THEN "receiver"
    ELSE IF commands # <<>> THEN "sim_controller_receiver"
    ELSE "blocked"

\* select_biased!: the arms are tried in the order they are written, the
\* first one that is ready is taken.
select_biased(commands, packets) ==
    IF commands # <<>> THEN "sim_controller_receiver"
    ELSE IF packets # <<>> THEN "receiver"
    ELSE "blocked"

TakeCommand ==
    /\ pc = "select"
    /\ select_biased(sim_controller_receiver, receiver) = "sim_controller_receiver"
    /\ LET command == Head(sim_controller_receiver)
       IN  /\ Commit(handle_sim_controller_packets(St, command))
           /\ ev' = [kind |-> "Command", command |-> command]
           /\ closed' = IF command.kind = "AddSender"
                        THEN closed \ {command.id} ELSE closed
    /\ sim_controller_receiver' = Tail(sim_controller_receiver)
    /\ pc' = "handled"
    /\ handled' = handled + 1
    /\ UNCHANGED <<server_type, now, ctrl_closed, receiver>>

TakePacket ==
    /\ pc = "select"
    /\ select_biased(sim_controller_receiver, receiver) = "receiver"
    /\ \E order \in Orders(senders), rnd \in [senders -> Rand] :
           Commit(handle_drone_packets(St, Head(receiver), order, rnd))
    /\ ev' = [kind |-> "Packet", packet |-> Head(receiver)]
    /\ receiver' = Tail(receiver)
    /\ pc' = "handled"
    /\ handled' = handled + 1
    /\ UNCHANGED <<server_type, now, closed, ctrl_closed, sim_controller_receiver>>

NextSelect ==
    \/ Start
    \/ ArriveCommand
    \/ ArrivePacket
    \/ TakeCommand
    \/ TakePacket
    \/ Drain
    \/ Loop
    \/ Tick

SpecSelect == Init /\ [][NextSelect]_vars

\* ------------------------------------ the select, supervisor going away
\* The supervisor may drop its Sender<SimControllerCommand>. The commands
\* sent before stay readable; after them every recv on the channel returns
\* Err(RecvError) at once. The mark at the end of the queue stands for the
\* disconnected channel: it is read and never consumed.
Disconnected == [kind |-> "Disconnected", id |-> 0]

Connected ==
    IF sim_controller_receiver = <<>> THEN TRUE
    ELSE Last(sim_controller_receiver) # Disconnected

MayArriveLive ==
    handled + Len(sim_controller_receiver) + Len(receiver) < MaxLive

DropControl ==
    /\ Connected
    /\ MayArriveLive
    /\ sim_controller_receiver' = Append(sim_controller_receiver, Disconnected)
    /\ UNCHANGED <<senders, topology, sent_packets, nack_queue, flood_time,
                   assembler, server_type, crashed, pc, now, closed, ctrl_closed,
                   out, events, ev, handled, receiver>>

SendCommand == Connected /\ MayArriveLive /\ ArriveCommand

SendPacket == MayArriveLive /\ ArrivePacket

RecvCommandOk ==
    /\ sim_controller_receiver # <<>>
    /\ Head(sim_controller_receiver) # Disconnected
    /\ TakeCommand

\* The first arm with Err(RecvError): handle_sim_controller_packets logs
\* the error and returns.
RecvCommandErr ==
    /\ pc = "select"
    /\ select_biased(sim_controller_receiver, receiver) = "sim_controller_receiver"
    /\ Head(sim_controller_receiver) = Disconnected
    /\ Commit(St)
    /\ ev' = [kind |-> "RecvError"]
    /\ pc' = "handled"
    /\ UNCHANGED <<server_type, now, closed, ctrl_closed, handled,
                   sim_controller_receiver, receiver>>

\* The steps of the node's thread.
Runs ==
    \/ Start
    \/ RecvCommandOk
    \/ RecvCommandErr
    \/ TakePacket
    \/ Drain
    \/ Loop

NextLive ==
    \/ Runs
    \/ SendCommand
    \/ SendPacket
    \/ DropControl
    \/ Tick

\* The thread of the node is scheduled for as long as it can take a step.
SpecLive == Init /\ [][NextLive]_vars /\ WF_vars(Runs)

\* ------------------------------------------- the run, on one session
\* The run of a node built with both neighbors, followed over MaxEvents
\* events about one response: the requests of session 1, the Acks and the
\* Nacks of its first fragment, the replies to the node's floods, and the
\* commands that install and remove a neighbor.
InitRoutes == Init /\ senders = Drones

RouteCommands == [kind : {"AddSender", "RemoveSender"}, id : Drones]

RoutePackets ==
    {packet \in FragmentPackets :
         /\ packet.session_id = 1
         /\ packet.pack_type.data.kind = "FileList"
         /\ Len(packet.routing_header.hops) >= 2}
        \cup {packet \in AckPackets \cup NackPackets :
                  packet.session_id = 1 /\ packet.pack_type.fragment_index = 0}
        \cup {packet \in FloodResponsePackets :
                  packet.pack_type.path_trace[1][1] = server_id}

RouteCommand ==
    /\ pc = "select" /\ handled < MaxEvents
    /\ \E command \in RouteCommands :
           /\ Commit(handle_sim_controller_packets(St, command))
           /\ ev' = [kind |-> "Command", command |-> command]
           /\ closed' = IF command.kind = "AddSender"
                        THEN closed \ {command.id} ELSE closed
    /\ pc' = "handled"
    /\ handled' = handled + 1
    /\ UNCHANGED <<server_type, now, ctrl_closed, sim_controller_receiver, receiver>>

RoutePacket ==
    /\ pc = "select" /\ handled < MaxEvents
    /\ \E packet \in RoutePackets :
           /\ \E order \in Orders(senders), rnd \in [senders -> Rand] :
                  LET s == handle_drone_packets(St, packet, order, rnd)
                  IN  WithinBounds(s) /\ Commit(s)
           /\ ev' = [kind |-> "Packet", packet |-> packet]
    /\ pc' = "handled"
    /\ handled' = handled + 1
    /\ UNCHANGED <<server_type, now, closed, ctrl_closed, sim_controller_receiver,
                   receiver>>

NextRoutes ==
    \/ Start
    \/ RouteCommand
    \/ RoutePacket
    \/ Drain
    \/ Loop
    \/ Tick

SpecRoutes == InitRoutes /\ [][NextRoutes]_vars

\* ---------------------------------------------------------- observation
\* The last step handled a packet of this kind (and the drain, if one is
\* due, has not run yet).
HandledPacket(kind) ==
    /\ pc = "handled"
    /\ ev.kind = "Packet"
    /\ ev.packet.pack_type.kind = kind

RetainedNow(session_id) ==
    IF session_id \in DOMAIN sent_packets THEN sent_packets[session_id] ELSE <<>>

QueuedNow(session_id) ==
    IF session_id \in DOMAIN nack_queue THEN nack_queue[session_id] ELSE <<>>

OfKind(packets, kind) ==
    SelectSeq(packets, LAMBDA p : p.pack_type.kind = kind)

NothingSent == \A n \in Drones : out[n] = <<>>

\* ------------------------------------------------------------------ C1
\* C1: whenever a fragment packet has been handled whose inbound hops h
\* have at least two entries and whose reverse(h)[1] is an installed
\* neighbor, exactly one Ack was handed to that neighbor's channel, first
\* of all, with the fragment's index, the packet's session id, hops =
\* reverse(h) and hop_index = 1, and no Ack went to another neighbor; this
\* holds in every topology the node can have.
C1_AckReversesInboundHops ==
    HandledPacket("MsgFragment") =>
        LET p == ev.packet
            h == p.routing_header.hops
        IN  (Len(h) >= 2 /\ At(Rev(h), 1) \in senders) =>
                /\ OfKind(out[At(Rev(h), 1)], "Ack")
                       = <<Packet(AckOf(p.pack_type.fragment_index),
                                  p.session_id, 1, Rev(h))>>
                /\ Head(out[At(Rev(h), 1)]).pack_type.kind = "Ack"
                /\ \A n \in Drones \ {At(Rev(h), 1)} : OfKind(out[n], "Ack") = <<>>

\* A fragment was acked although the graph holds no route to its sender.
C1_Witness ==
    /\ HandledPacket("MsgFragment")
    /\ compute_route(topology, server_id, ev.packet.routing_header.hops[1]) = <<>>
    /\ \E n \in Drones : OfKind(out[n], "Ack") # <<>>

\* The step handles a packet of this kind.
HandlesPacket(kind) ==
    /\ pc = "select" /\ pc' = "handled"
    /\ ev'.kind = "Packet"
    /\ ev'.packet.pack_type.kind = kind

\* The step handles a packet of this kind about fragment (S, i).
HandlesAbout(kind, S, i) ==
    /\ HandlesPacket(kind)
    /\ ev'.packet.session_id = S
    /\ ev'.packet.pack_type.fragment_index = i

IsRetained(S, i) == FindPacket(RetainedNow(S), i) # 0

WithoutIndex(packets, i) ==
    SelectSeq(packets, LAMBDA p : p.pack_type.fragment_index # i)

\* ------------------------------------------------------------------ C2
\* C2: a step that handles an Ack{fragment_index: i} for session S leaves
\* no retained fragment with key (S, i), and leaves the retained fragments
\* of S with another index, and those of every other session, as they were.
C2_AckRemovesOnlyItsFragment ==
    [][\A S \in Sessions, i \in FragmentIndexes :
           HandlesAbout("Ack", S, i) =>
               /\ ~IsRetained(S, i)'
               /\ RetainedNow(S)' = WithoutIndex(RetainedNow(S), i)
               /\ \A T \in Sessions \ {S} : RetainedNow(T)' = RetainedNow(T)]_vars

\* An Ack for one fragment of a two-fragment response has been handled:
\* the sibling is still retained, and so is another session's fragment.
C2_Witness ==
    /\ HandledPacket("Ack")
    /\ LET S == ev.packet.session_id
           i == ev.packet.pack_type.fragment_index
       IN  /\ Len(RetainedNow(S)) = 1
           /\ RetainedNow(S)[1].pack_type.total_n_fragments = 2
           /\ RetainedNow(S)[1].pack_type.fragment_index # i
           /\ \E T \in Sessions \ {S} : RetainedNow(T) # <<>>

\* ------------------------------------------------------------------ C3
\* The last resend of (S, i) found no path: resend_packet stores the route
\* it computed in the retained packet.
FoundNoPath(S, i) ==
    /\ IsRetained(S, i)
    /\ RetainedNow(S)[FindPacket(RetainedNow(S), i)].routing_header.hops = <<>>

\* The last step was given a Nack for (S, i), or is the drain after it.
NackAbout(S, i) ==
    /\ pc \in {"handled", "drained"}
    /\ ev.kind \in {"Packet", "Drain"}
    /\ "packet" \in DOMAIN ev
    /\ ev.packet.pack_type.kind = "Nack"
    /\ ev.packet.session_id = S
    /\ ev.packet.pack_type.fragment_index = i

\* C3: when a resend of a retained fragment (S, i) finds no path to the
\* destination, the node keeps running, no packet is sent, (S, i) is in the
\* retry set afterwards and the fragment is still retained.
C3_NoPathKeepsRunning ==
    \A S \in Sessions, i \in FragmentIndexes :
        (NackAbout(S, i) /\ FoundNoPath(S, i)) =>
            /\ ~crashed
            /\ NothingSent
            /\ \E k \in 1..Len(QueuedNow(S)) : QueuedNow(S)[k].fragment_index = i
            /\ IsRetained(S, i)

\* ------------------------------------------------------------------ C4
\* C4: a step that handles a Nack{fragment_index: i, Dropped} for a
\* retained (S, i) retransmits the fragment to the first hop of its
\* previous transmission, with the hops of its previous transmission.  It
\* is stated here for the states in which that first hop is still installed
\* and the graph holds a route to the destination, where the resend of C3
\* does not come into it.
C4_DroppedResendsOnSameRoute ==
    [][\A S \in Sessions, i \in FragmentIndexes :
           (/\ HandlesAbout("Nack", S, i)
            /\ ev'.packet.pack_type.nack_type.t = "Dropped"
            /\ IsRetained(S, i)) =>
               LET p == RetainedNow(S)[FindPacket(RetainedNow(S), i)]
                   hops == p.routing_header.hops
               IN  (/\ At(hops, 1) \in senders
                    /\ compute_route(topology, server_id, Last(hops)) # <<>>) =>
                       out'[At(hops, 1)] = <<p>>]_vars

\* ------------------------------------------------------------------ C5
\* What send_flood_request leaves behind when it is called in this state.
FloodedOrCooling ==
    IF Floods
    THEN /\ flood_time' = now
         /\ \A n \in Drones :
                IF n \in senders
                THEN /\ Len(out'[n]) = 1
                     /\ out'[n][1].pack_type.kind = "FloodRequest"
                ELSE out'[n] = <<>>
    ELSE /\ flood_time' = flood_time
         /\ \A n \in Drones : out'[n] = <<>>

\* The graph without node x: x is no node, has no adjacency entry, and is
\* in no other node's adjacency; the rest is as before.
WithoutNode(x) ==
    /\ topology'.nodes = topology.nodes \ {x}
    /\ DOMAIN topology'.edges = DOMAIN topology.edges \ {x}
    /\ \A k \in DOMAIN topology'.edges : topology'.edges[k] = topology.edges[k] \ {x}

\* C5 (as the code has it): a step that handles an Ack, or a Nack of kind
\* Dropped, about a (S, i) for which no fragment is retained changes
\* nothing - retention, retry set, topology and flood timestamp are as
\* before and no packet is sent.  A Nack of another kind about such a
\* (S, i) leaves retention as before and sends no fragment, but it is
\* queued in the retry set, ErrorInRouting(x) removes x from the topology,
\* and a flood is initiated unless the cooldown suppresses it; the drain
\* that follows empties the retry set and sends nothing.
C5_UnknownKeyByKind ==
    [][\A S \in Sessions, i \in FragmentIndexes :
           /\ ((HandlesAbout("Ack", S, i) \/ HandlesAbout("Nack", S, i))
                   /\ ~IsRetained(S, i)) =>
                  /\ sent_packets' = sent_packets
                  /\ \A n \in Drones : OfKind(out'[n], "MsgFragment") = <<>>
                  /\ IF \/ ev'.packet.pack_type.kind = "Ack"
                        \/ ev'.packet.pack_type.nack_type.t = "Dropped"
                     THEN /\ UNCHANGED <<nack_queue, topology, flood_time>>
                          /\ out' = NoOut
                     ELSE /\ QueuedNow(S)' =
                                 Append(QueuedNow(S),
                                        [fragment_index |-> i,
                                         nack_type |-> ev'.packet.pack_type.nack_type])
                          /\ IF ev'.packet.pack_type.nack_type.t = "ErrorInRouting"
                             THEN WithoutNode(ev'.packet.pack_type.nack_type.node)
                             ELSE topology' = topology
                          /\ FloodedOrCooling
           /\ (NackAbout(S, i) /\ ~IsRetained(S, i) /\ pc' = "drained") =>
                  /\ nack_queue' = EmptyMap
                  /\ out' = NoOut
                  /\ UNCHANGED <<sent_packets, topology, flood_time>>]_vars

\* A Nack that is not Dropped, about a fragment that is not retained, has
\* been handled: it is queued and a flood has gone out.
C5_Witness ==
    /\ HandledPacket("Nack")
    /\ ev.packet.pack_type.nack_type.t = "ErrorInRouting"
    /\ ~IsRetained(ev.packet.session_id, ev.packet.pack_type.fragment_index)
    /\ QueuedNow(ev.packet.session_id) # <<>>
    /\ ev.packet.pack_type.nack_type.node \notin topology.nodes
    /\ \E n \in Drones : OfKind(out[n], "FloodRequest") # <<>>

\* C5 (as the specification has it): a step that handles an Ack or a Nack
\* of any kind about a (S, i) for which no fragment is retained changes
\* nothing: retention, retry set, topology and flood timestamp are as
\* before, and no packet is sent.
C5_UnknownKeyChangesNothing ==
    [][\A S \in Sessions, i \in FragmentIndexes :
           ((HandlesAbout("Ack", S, i) \/ HandlesAbout("Nack", S, i))
                /\ ~IsRetained(S, i)) =>
               /\ UNCHANGED <<sent_packets, nack_queue, topology, flood_time>>
               /\ out' = NoOut]_vars

\* ------------------------------------------------------------------ C6
\* The step is the drain of the retry set that run() makes after an event.
Drains == pc = "handled" /\ pc' = "drained"

RouteOf(p) == compute_route(topology, server_id, Last(p.routing_header.hops))

\* C6: in the drain that follows an event and precedes the next one, every
\* retry-set entry is attempted once: an entry whose fragment has a route
\* is sent to the route's first hop and is no longer in the retry set; an
\* entry whose fragment has no route remains in the retry set, and the node
\* goes on to its next event.  (In run() the drain follows every event that
\* leaves the retry set non-empty, a flood reply or not.)
C6_DrainKeepsUnroutable ==
    [][\A S \in Sessions, i \in FragmentIndexes :
           (/\ Drains
            /\ \E k \in 1..Len(QueuedNow(S)) : QueuedNow(S)[k].fragment_index = i
            /\ IsRetained(S, i)) =>
               LET p == RetainedNow(S)[FindPacket(RetainedNow(S), i)]
               IN  IF RouteOf(p) # <<>>
                   THEN /\ At(RouteOf(p), 1) \in senders =>
                               \E k \in 1..Len(out'[At(RouteOf(p), 1)]) :
                                   out'[At(RouteOf(p), 1)][k]
                                       = [p EXCEPT !.routing_header.hops = RouteOf(p)]
                        /\ QueuedNow(S)' = <<>>
                   ELSE /\ \E k \in 1..Len(QueuedNow(S)') :
                               QueuedNow(S)'[k].fragment_index = i
                        /\ ~crashed']_vars

\* ------------------------------------------------------------------ C7
\* C7: a step that handles a Nack ErrorInRouting(x) for a retained (S, i)
\* removes node x and its edges from the topology, initiates a flood unless
\* the cooldown suppresses it, and leaves the Nack queued, so that the next
\* step of the loop is the drain and not a select; the drain attempts the
\* resend of (S, i) on the updated topology: the retained packet gets the
\* route computed there and, when that route's first hop is installed, is
\* sent to it.
C7_ErrorInRoutingRemovesFloodsResends ==
    [][\A S \in Sessions, i \in FragmentIndexes :
           /\ (/\ HandlesAbout("Nack", S, i)
               /\ ev'.packet.pack_type.nack_type.t = "ErrorInRouting"
               /\ IsRetained(S, i)) =>
                  /\ WithoutNode(ev'.packet.pack_type.nack_type.node)
                  /\ FloodedOrCooling
                  /\ QueuedNow(S)' # <<>>
                  /\ ~crashed'
           /\ (pc = "handled" /\ ~crashed /\ nack_queue # EmptyMap) => pc' = "drained"
           /\ (/\ Drains /\ NackAbout(S, i)
               /\ ev.packet.pack_type.nack_type.t = "ErrorInRouting"
               /\ IsRetained(S, i)) =>
                  LET k == FindPacket(RetainedNow(S), i)
                      p == RetainedNow(S)[k]
                      resent == [p EXCEPT !.routing_header.hops = RouteOf(p)]
                  IN  /\ RetainedNow(S)'[k] = resent
                      /\ (Len(RouteOf(p)) >= 2 /\ At(RouteOf(p), 1) \in senders) =>
                             out'[At(RouteOf(p), 1)] = <<resent>>]_vars

\* After ErrorInRouting(x) and the drain, the fragment has gone out on a
\* route that avoids x.
C7_Witness ==
    /\ pc = "drained"
    /\ "packet" \in DOMAIN ev
    /\ ev.packet.pack_type.kind = "Nack"
    /\ ev.packet.pack_type.nack_type.t = "ErrorInRouting"
    /\ ev.packet.pack_type.nack_type.node \notin topology.nodes
    /\ \E n \in Drones \ {ev.packet.pack_type.nack_type.node} :
           /\ OfKind(out[n], "MsgFragment") # <<>>
           /\ out[n][1].session_id = ev.packet.session_id
           /\ out[n][1].routing_header.hops = <<server_id, n, Client>>

\* ------------------------------------------------------------------ C8
\* C8: every response fragment handed to a channel while a request with
\* inbound hops h and session S is handled carries session S, hops =
\* reverse(h) and hop_index = 1, and is handed to the channel of
\* reverse(h)[1].
C8_ResponseFragmentHeaders ==
    HandledPacket("MsgFragment") =>
        \A n \in Drones : \A k \in 1..Len(out[n]) :
            out[n][k].pack_type.kind = "MsgFragment" =>
                /\ out[n][k].session_id = ev.packet.session_id
                /\ out[n][k].routing_header.hops = Rev(ev.packet.routing_header.hops)
                /\ out[n][k].routing_header.hop_index = 1
                /\ n = At(Rev(ev.packet.routing_header.hops), 1)

\* A response of two fragments has been sent.
C8_Witness ==
    /\ HandledPacket("MsgFragment")
    /\ \E n \in Drones : Len(OfKind(out[n], "MsgFragment")) = 2

\* ------------------------------------------------------------------ C9
\* The request always answered: a list or a server type request that
\* arrived whole on a route of two hops or more.
AlwaysAnswered(packet) ==
    /\ packet.pack_type.total_n_fragments = 1
    /\ packet.pack_type.data.kind \in {"FileList", "ServerTypeRequest"}
    /\ Len(packet.routing_header.hops) >= 2

\* C9: a step that handles a request fragment appends every fragment of
\* the response it produces to the retention of the session, fragments 0 to
\* n-1 of n, also when no channel to the next hop is installed, while a
\* fragment is handed to a channel only if the channel of its hops[1] is
\* installed; a list or a type request whose session has no fragment
\* waiting in the assembler always produces a response.
C9_RetainedWhetherSentOrNot ==
    [][\A S \in Sessions :
           (HandlesPacket("MsgFragment") /\ ev'.packet.session_id = S) =>
               LET before == RetainedNow(S)
                   after == RetainedNow(S)'
                   added == SubSeq(after, Len(before) + 1, Len(after))
               IN  /\ Len(after) >= Len(before)
                   /\ SubSeq(after, 1, Len(before)) = before
                   /\ added # <<>> =>
                          /\ Len(added) = added[1].pack_type.total_n_fragments
                          /\ \A k \in 1..Len(added) :
                                 /\ added[k].pack_type.kind = "MsgFragment"
                                 /\ added[k].pack_type.fragment_index = k - 1
                   /\ \A n \in Drones :
                          /\ OfKind(out'[n], "MsgFragment") # <<>> => n \in senders
                          /\ \A k \in 1..Len(out'[n]) :
                                 out'[n][k].pack_type.kind = "MsgFragment" =>
                                     /\ out'[n][k] \in Range(added)
                                     /\ n = At(out'[n][k].routing_header.hops, 1)
                   /\ (AlwaysAnswered(ev'.packet) /\ S \notin DOMAIN assembler) =>
                          added # <<>>
                   /\ (added # <<>> /\ At(added[1].routing_header.hops, 1) \in senders) =>
                          OfKind(out'[At(added[1].routing_header.hops, 1)], "MsgFragment")
                              = added]_vars

\* A response has been retained although the next hop has no channel, and
\* nothing has been sent.
C9_Witness ==
    /\ HandledPacket("MsgFragment")
    /\ AlwaysAnswered(ev.packet)
    /\ At(Rev(ev.packet.routing_header.hops), 1) \notin senders
    /\ RetainedNow(ev.packet.session_id) # <<>>
    /\ NothingSent

\* ----------------------------------------------------------------- C10
\* C10: for each response produced, exactly one MessageSent event with the
\* response's session id is emitted on the supervisor channel: when the
\* handling of a request fragment has sent a response fragment, the events
\* it emitted hold one MessageSent with the session id.
C10_OneMessageSentPerResponse ==
    (/\ HandledPacket("MsgFragment")
     /\ \E k \in 1..Len(events) : /\ events[k].kind = "PacketSent"
                                  /\ events[k].packet_type = "MsgFragment") =>
        Len(SelectSeq(events,
                      LAMBDA e : /\ e.kind = "MessageSent"
                                 /\ e.session_id = ev.packet.session_id)) = 1

\* ----------------------------------------------------------------- C11
\* C11: on the neighbor channel the Ack for a fragment comes before every
\* response fragment produced by the request the fragment completes: a
\* step that handles a fragment hands no response fragment to a channel
\* that has not been handed the fragment's Ack before it.  The Ack is
\* emitted before the assembler sees the fragment: when the Ack cannot be
\* built the assembler and the retention are as before, and a fragment that
\* leaves its message incomplete has been acked all the same.
C11_AckBeforeResponse ==
    [][HandlesPacket("MsgFragment") =>
           LET p == ev'.packet
               h == p.routing_header.hops
               ack == Packet(AckOf(p.pack_type.fragment_index), p.session_id, 1, Rev(h))
           IN  /\ \A n \in Drones : \A k \in 1..Len(out'[n]) :
                      out'[n][k].pack_type.kind = "MsgFragment" =>
                          \E j \in 1..(k - 1) : out'[n][j] = ack
               /\ Len(h) < 2 =>
                      /\ crashed'
                      /\ UNCHANGED <<assembler, sent_packets>>
                      /\ out' = NoOut
               /\ (Len(h) >= 2 /\ At(Rev(h), 1) \in senders) =>
                      Head(out'[At(Rev(h), 1)]) = ack]_vars

\* The Ack and then the response went to the same neighbor.
C11_Witness ==
    /\ HandledPacket("MsgFragment")
    /\ \E n \in Drones :
           /\ Len(out[n]) = 2
           /\ out[n][1].pack_type.kind = "Ack"
           /\ out[n][2].pack_type.kind = "MsgFragment"

\* ----------------------------------------------------------------- C12
\* The step calls send_flood_request: run() before its loop, and the arms
\* of on_nack_arrived for the Nacks that are not Dropped.
InitiatesFlood ==
    \/ pc = "start" /\ pc' = "handled"
    \/ HandlesPacket("Nack") /\ ev'.packet.pack_type.nack_type.t # "Dropped"

InCooldown == now - flood_time < TIMEOUT_BETWEEN_FLOODS_MS

\* C12: a flood initiation attempted while now - flood_time is below the
\* cooldown sends no FloodRequest and leaves flood_time and the graph as
\* they were (but for the node an ErrorInRouting Nack removes before the
\* attempt); hence flood_time only ever moves forward by the cooldown or
\* more.
C12_CooldownSuppressesFlood ==
    [][/\ (InitiatesFlood /\ InCooldown) =>
              /\ \A n \in Drones : OfKind(out'[n], "FloodRequest") = <<>>
              /\ flood_time' = flood_time
              /\ IF pc = "select" /\ ev'.packet.pack_type.nack_type.t = "ErrorInRouting"
                 THEN WithoutNode(ev'.packet.pack_type.nack_type.node)
                 ELSE topology' = topology
       /\ flood_time' # flood_time =>
              /\ flood_time' = now
              /\ flood_time' - flood_time >= TIMEOUT_BETWEEN_FLOODS_MS]_vars

\* A Nack asked for a flood within the cooldown of the last one: nothing
\* went out.
C12_Witness ==
    /\ HandledPacket("Nack")
    /\ ev.packet.pack_type.nack_type.t # "Dropped"
    /\ senders # {}
    /\ flood_time + TIMEOUT_BETWEEN_FLOODS_MS > now
    /\ NothingSent

\* ----------------------------------------------------------------- C13
\* C13: a flood initiation that the cooldown does not suppress sends
\* exactly one FloodRequest to each installed neighbor and nothing to
\* another node, each with initiator = self, path_trace = [(self, Server)]
\* and empty hops, and sets flood_time to the current time.
C13_FloodReachesEveryNeighbor ==
    [][(InitiatesFlood /\ ~InCooldown) =>
           /\ \A n \in Drones :
                  IF n \in senders
                  THEN /\ Len(out'[n]) = 1
                       /\ out'[n][1].pack_type.kind = "FloodRequest"
                       /\ out'[n][1].pack_type.initiator_id = server_id
                       /\ out'[n][1].pack_type.path_trace = <<<<server_id, "Server">>>>
                       /\ out'[n][1].routing_header.hops = <<>>
                  ELSE out'[n] = <<>>
           /\ flood_time' = now]_vars

\* A second flood, after the cooldown, has gone to both neighbors.
C13_Witness ==
    /\ HandledPacket("Nack")
    /\ senders = Drones
    /\ flood_time = now
    /\ now > TIMEOUT_BETWEEN_FLOODS_MS
    /\ \A n \in Drones : OfKind(out[n], "FloodRequest") # <<>>

\* ----------------------------------------------------------------- C14
\* C14: when a FloodRequest with a non-empty path_trace has been handled,
\* every installed neighbor but the node that was last in path_trace has
\* been handed one packet, the request with (self, Server) appended to
\* path_trace and with flood_id, initiator and session id as received, and
\* no other node has been handed anything.
C14_FloodRequestRelayed ==
    (HandledPacket("FloodRequest") /\ ev.packet.pack_type.path_trace # <<>>) =>
        LET request == ev.packet.pack_type
            sender_id == Last(request.path_trace)[1]
        IN  \A n \in Drones :
                IF n \in senders \ {sender_id}
                THEN /\ Len(out[n]) = 1
                     /\ out[n][1].pack_type.kind = "FloodRequest"
                     /\ out[n][1].pack_type.path_trace
                            = Append(request.path_trace, <<server_id, "Server">>)
                     /\ out[n][1].pack_type.flood_id = request.flood_id
                     /\ out[n][1].pack_type.initiator_id = request.initiator_id
                     /\ out[n][1].session_id = ev.packet.session_id
                ELSE out[n] = <<>>

\* The request came from installed neighbor 2 and went on to 3 only.
C14_Witness ==
    /\ HandledPacket("FloodRequest")
    /\ senders = Drones
    /\ ev.packet.pack_type.path_trace # <<>>
    /\ Last(ev.packet.pack_type.path_trace)[1] = 2
    /\ out[2] = <<>>
    /\ Len(out[3]) = 1

\* ----------------------------------------------------------------- C15
\* The reply is one to a flood of another node.
Foreign(packet) ==
    \/ packet.pack_type.path_trace = <<>>
    \/ Head(packet.pack_type.path_trace)[1] # server_id

\* C15: a step that handles a FloodResponse whose path_trace[0] is not this
\* node, with hops[hop_index + 1] an installed neighbor, hands that
\* neighbor's channel one packet with the flood_id, path_trace, session id
\* and hops as received and hop_index one higher, and nothing to another
\* channel; the graph, the retention and the retry set are as before.
C15_ForeignReplyForwarded ==
    [][\A packet \in FloodResponsePackets :
           (HandlesPacket("FloodResponse") /\ ev'.packet = packet /\ Foreign(packet)) =>
               LET header == packet.routing_header
                   next_hop == At(header.hops, header.hop_index + 1)
               IN  /\ UNCHANGED <<topology, sent_packets, nack_queue>>
                   /\ \A n \in Drones :
                          out'[n] = IF n = next_hop /\ n \in senders
                                    THEN <<[packet EXCEPT !.routing_header.hop_index
                                                              = header.hop_index + 1]>>
                                    ELSE <<>>]_vars

\* A foreign reply has been forwarded.
C15_Witness ==
    /\ HandledPacket("FloodResponse")
    /\ Foreign(ev.packet)
    /\ \E n \in Drones :
           /\ Len(out[n]) = 1
           /\ out[n][1].routing_header.hop_index = ev.packet.routing_header.hop_index + 1
           /\ out[n][1].routing_header.hops = ev.packet.routing_header.hops

\* ----------------------------------------------------------------- C16
\* C16: after a step that handles a FloodResponse whose path_trace[0] is
\* this node, the graph holds every node of path_trace and, in both
\* directions, the edge of every consecutive pair of path_trace; no node
\* and no edge of the graph before is gone; and handling the same reply
\* once more leaves the graph as it is.
C16_OwnReplyAbsorbed ==
    [][\A packet \in FloodResponsePackets :
           (HandlesPacket("FloodResponse") /\ ev'.packet = packet /\ ~Foreign(packet)) =>
               LET path_trace == packet.pack_type.path_trace
               IN  /\ \A i \in 1..Len(path_trace) : path_trace[i][1] \in topology'.nodes
                   /\ \A i \in 1..(Len(path_trace) - 1) :
                          /\ path_trace[i + 1][1] \in Adj(topology', path_trace[i][1])
                          /\ path_trace[i][1] \in Adj(topology', path_trace[i + 1][1])
                   /\ topology.nodes \subseteq topology'.nodes
                   /\ \A k \in DOMAIN topology.edges :
                          /\ k \in DOMAIN topology'.edges
                          /\ topology.edges[k] \subseteq topology'.edges[k]
                   /\ (on_flood_response(St, packet).topology)' = topology']_vars

\* A reply through neighbor 3 has been absorbed into the graph 1 - 2 - 21.
C16_Witness ==
    /\ HandledPacket("FloodResponse")
    /\ ~Foreign(ev.packet)
    /\ topology.nodes = {server_id, 2, 3, Client}
    /\ Adj(topology, server_id) = {2, 3}
    /\ Adj(topology, Client) = {2, 3}

\* ----------------------------------------------------------------- C17
\* The last step handled a command of this kind.
HandledCommand(kind) ==
    /\ pc = "handled"
    /\ ev.kind = "Command"
    /\ ev.command.kind = kind

\* The step handles a command of this kind about neighbor id.
HandlesCommand(kind, id) ==
    /\ pc = "select" /\ pc' = "handled"
    /\ ev'.kind = "Command"
    /\ ev'.command.kind = kind
    /\ ev'.command.id = id

\* C17: when AddSender(id, channel) has been handled, senders holds id, the
\* graph holds node id, the adjacency of self holds id, and the adjacency
\* map has an entry for id, which holds self.
C17_AddSenderInstalls ==
    HandledCommand("AddSender") =>
        /\ ev.command.id \in senders
        /\ ev.command.id \in topology.nodes
        /\ server_id \in DOMAIN topology.edges
        /\ ev.command.id \in topology.edges[server_id]
        /\ ev.command.id \in DOMAIN topology.edges
        /\ server_id \in topology.edges[ev.command.id]

\* Neighbor 3 has been added to a node whose graph knew neither.
C17_Witness ==
    /\ HandledCommand("AddSender")
    /\ ev.command.id = 3
    /\ senders = Drones
    /\ topology.nodes = {server_id, 3}

\* ----------------------------------------------------------------- C18
\* C18: a step that handles AddSender(id, channel) initiates a flood:
\* unless the cooldown suppresses it, a FloodRequest is handed to every
\* installed neighbor, the new one included.
C18_AddSenderFloods ==
    [][\A id \in Drones :
           (HandlesCommand("AddSender", id) /\ ~InCooldown) =>
               \A n \in senders \cup {id} : OfKind(out'[n], "FloodRequest") # <<>>]_vars

C20_RemoveSenderDropsNode ==
    [][\A id \in Drones :
           (/\ HandlesCommand("RemoveSender", id)
            /\ id \in senders
            /\ id \in Adj(topology, server_id)) =>
               /\ id \notin senders'
               /\ id \notin topology'.nodes
               /\ id \notin DOMAIN topology'.edges
               /\ server_id \in DOMAIN topology'.edges
               /\ id \notin topology'.edges[server_id]]_vars

\* ----------------------------------------------------------------- C21
\* The step hands this packet to handle_drone_packets.
HandlesThis(packet) ==
    /\ pc = "select"
    /\ pc' = "handled"
    /\ ev' = [kind |-> "Packet", packet |-> packet]

\* A request that arrives whole, on a route of two hops or more, for a
\* session with no fragment waiting in the assembler.
ArrivesWhole(packet) ==
    /\ packet.pack_type.total_n_fragments = 1
    /\ Len(packet.routing_header.hops) >= 2
    /\ packet.session_id \notin DOMAIN assembler

\* The step appends a response to the retention of the session.
Answers(S) == Len(RetainedNow(S)') > Len(RetainedNow(S))

\* The step sends no response fragment and retains nothing new.
NoResponse ==
    /\ sent_packets' = sent_packets
    /\ \A n \in Drones : OfKind(out'[n], "MsgFragment") = <<>>

\* C21: a step that handles a whole request answers a TextFileRequest for
\* an indexed readable file exactly when the server is a Text server and a
\* MediaFileRequest for one exactly when it is a Media server; a request of
\* the wrong type produces no response fragment and no retention entry; a
\* FileList and a ServerTypeRequest are answered on both types.
C21_TypeAffinity ==
    [][\A packet \in FragmentPackets :
           (HandlesThis(packet) /\ ArrivesWhole(packet)) =>
               LET request == packet.pack_type.data
                   S == packet.session_id
               IN  /\ (request.kind = "TextFileRequest" /\ request.id \in FileIds) =>
                          (Answers(S) <=> server_type = "Text")
                   /\ (request.kind = "MediaFileRequest" /\ request.id \in FileIds) =>
                          (Answers(S) <=> server_type = "Media")
                   /\ (request.kind = "TextFileRequest" /\ server_type # "Text") =>
                          NoResponse
                   /\ (request.kind = "MediaFileRequest" /\ server_type # "Media") =>
                          NoResponse
                   /\ request.kind \in {"FileList", "ServerTypeRequest"} =>
                          Answers(S)]_vars

\* A Media server has handled a whole TextFileRequest for an indexed file:
\* the fragment is acked, nothing is retained and no response has left.
C21_Witness ==
    /\ HandledPacket("MsgFragment")
    /\ server_type = "Media"
    /\ ev.packet.pack_type.data.kind = "TextFileRequest"
    /\ ev.packet.pack_type.data.id \in FileIds
    /\ ev.packet.pack_type.total_n_fragments = 1
    /\ assembler = EmptyMap
    /\ sent_packets = EmptyMap
    /\ \E n \in Drones : OfKind(out[n], "Ack") # <<>>
    /\ \A n \in Drones : OfKind(out[n], "MsgFragment") = <<>>

\* ----------------------------------------------------------------- C22
\* A request that names no indexed file, or a payload that is no request.
Unanswerable(request) ==
    \/ request.kind = "Malformed"
    \/ request.kind = "TextFileRequest" /\ request.id = UnknownFile

\* C22: a step that handles a fragment of a request for an unknown file id,
\* or of a payload that cannot be decoded as a request, retains nothing
\* (sent_packets is unchanged, so the session gets no retention entry),
\* leaves the retry set alone and sends no response fragment: every packet it sends is an Ack of that
\* fragment, on the session of the request.
C22_UnanswerableOnlyAcked ==
    [][\A packet \in FragmentPackets :
           (HandlesThis(packet) /\ Unanswerable(packet.pack_type.data)) =>
               /\ sent_packets' = sent_packets
               /\ nack_queue' = nack_queue
               /\ \A n \in Drones : \A k \in 1..Len(out'[n]) :
                      /\ out'[n][k].pack_type.kind = "Ack"
                      /\ out'[n][k].session_id = packet.session_id
                      /\ out'[n][k].pack_type.fragment_index
                             = packet.pack_type.fragment_index]_vars

\* A Text server has handled a whole request for a file id that is not in
\* its index: the Ack has left and the session has no retention entry.
C22_Witness ==
    /\ HandledPacket("MsgFragment")
    /\ server_type = "Text"
    /\ ev.packet.pack_type.data = [kind |-> "TextFileRequest", id |-> UnknownFile]
    /\ assembler = EmptyMap
    /\ ev.packet.session_id \notin DOMAIN sent_packets
    /\ \E n \in Drones : out[n] # <<>>
    /\ ~crashed

\* ----------------------------------------------------------------- C23
\* The last handler handed a packet to the channel of a neighbor whose
\* receiver is closed, or a response to the supervisor channel whose
\* receiver is closed.
SentOnClosed ==
    \/ \E n \in closed : out[n] # <<>>
    \/ /\ ctrl_closed
       /\ \E k \in 1..Len(events) : events[k].kind = "TopologyResponse"

\* C23: a send on a channel whose receiver is closed never terminates the
\* node: whenever the last handler has attempted such a send, the node has
\* not panicked.
C23_ClosedReceiverKeepsRunning == SentOnClosed => ~crashed

\* ----------------------------------------------------------------- C24
\* C24: a step of the select taken while a command is waiting handles the
\* oldest waiting command and leaves the waiting packets where they are,
\* and a step that handles a packet is taken only when no command is
\* waiting: every command that arrived before has been handled, with its
\* effects, by then.
C24_CommandsFirst ==
    [][(pc = "select" /\ pc' = "handled") =>
           /\ sim_controller_receiver # <<>> =>
                  /\ ev' = [kind |-> "Command",
                            command |-> Head(sim_controller_receiver)]
                  /\ sim_controller_receiver' = Tail(sim_controller_receiver)
                  /\ receiver' = receiver
           /\ ev'.kind = "Packet" =>
                  /\ sim_controller_receiver = <<>>
                  /\ ev'.packet = Head(receiver)
                  /\ receiver' = Tail(receiver)]_vars

\* AddSender(3) has been handled while a request that came through 3 was
\* waiting: 3 is installed before the request is looked at.
C24_Witness ==
    /\ pc = "handled"
    /\ ev = [kind |-> "Command", command |-> [kind |-> "AddSender", id |-> 3]]
    /\ receiver # <<>>
    /\ Head(receiver).pack_type.kind = "MsgFragment"
    /\ Head(receiver).routing_header.hops = <<Client, 3, server_id>>
    /\ 3 \in senders

\* ----------------------------------------------------------------- C25
\* C25: a step that handles the Topology command sends exactly one
\* response on the supervisor channel, a TopologyResponse that holds the
\* graph as it was when the command was taken, sends no packet, and leaves
\* the topology, the installed channels, the retention, the retry set, the
\* flood timestamp and the assembler as they were.
C25_TopologyQueryReadsOnly ==
    [][(/\ pc = "select"
        /\ pc' = "handled"
        /\ ev' = [kind |-> "Command", command |-> [kind |-> "Topology", id |-> 0]]) =>
           /\ events' = <<[kind |-> "TopologyResponse", topology |-> topology]>>
           /\ out' = NoOut
           /\ ~crashed'
           /\ UNCHANGED <<topology, senders, sent_packets, nack_queue, flood_time,
                          assembler>>]_vars

\* The Topology command has been answered with a graph that has edges,
\* while fragments are retained.
C25_Witness ==
    /\ HandledCommand("Topology")
    /\ Len(events) = 1
    /\ events[1].kind = "TopologyResponse"
    /\ events[1].topology = topology
    /\ topology # NewTopology
    /\ sent_packets # EmptyMap

\* ----------------------------------------------------------------- C26
InRetrySet(S, i) ==
    \E k \in 1..Len(QueuedNow(S)) : QueuedNow(S)[k].fragment_index = i

RetainedPacket(S, i) == RetainedNow(S)[FindPacket(RetainedNow(S), i)]

\* The last handler handed the retained fragment (S, i) to the channel of
\* its hops[1], which is installed.
SentToInstalled(S, i) ==
    LET packet == RetainedPacket(S, i)
        hops == packet.routing_header.hops
    IN  /\ Len(hops) >= 2
        /\ At(hops, 1) \in senders
        /\ packet \in Range(out[At(hops, 1)])

\* The step retains fragment (S, i) of a new response, or resends the
\* retained fragment (S, i) for a Dropped Nack.
SendsFragment(S, i) ==
    \/ /\ HandlesPacket("MsgFragment")
       /\ ev'.packet.session_id = S
       /\ ~IsRetained(S, i)
    \/ /\ HandlesAbout("Nack", S, i)
       /\ ev'.packet.pack_type.nack_type = Dropped
       /\ IsRetained(S, i)

\* C26: every retained fragment (S, i) is in the retry set or was last
\* sent to an installed hops[1]. Stated on the steps that send: after a
\* step that retains a fragment or resends a retained one, the fragment is
\* in the retry set or has been handed to the installed channel of its
\* hops[1].
C26_RetainedQueuedOrSent ==
    [][\A S \in Sessions, i \in FragmentIndexes :
           (SendsFragment(S, i) /\ IsRetained(S, i)') =>
               (InRetrySet(S, i)' \/ SentToInstalled(S, i)')]_vars

\* ----------------------------------------------------------------- C27
\* The step resends the retained fragment (S, i), whose hops[1] is an
\* installed neighbor: for a Dropped Nack, or in the drain of a retry set
\* that holds (S, i).
Resends(S, i) ==
    /\ IsRetained(S, i)
    /\ Len(RetainedPacket(S, i).routing_header.hops) >= 2
    /\ At(RetainedPacket(S, i).routing_header.hops, 1) \in senders
    /\ \/ /\ HandlesAbout("Nack", S, i)
          /\ ev'.packet.pack_type.nack_type = Dropped
       \/ Drains /\ InRetrySet(S, i)

\* C27: a step that resends a retained fragment (S, i) whose destination
\* has a path in the graph leaves the retained packet with the shortest
\* path from self to the destination as its hops and 1 as its hop_index,
\* hands it to the channel of hops[1], and leaves (S, i) out of the retry
\* set.
C27_ResendOnFoundPath ==
    [][\A S \in Sessions, i \in FragmentIndexes :
           (Resends(S, i) /\ RouteOf(RetainedPacket(S, i)) # <<>>) =>
               LET route == RouteOf(RetainedPacket(S, i))
               IN  /\ IsRetained(S, i)'
                   /\ RetainedPacket(S, i)'.routing_header.hops = route
                   /\ RetainedPacket(S, i)'.routing_header.hop_index = 1
                   /\ RetainedPacket(S, i)' \in Range(out'[At(route, 1)])
                   /\ ~InRetrySet(S, i)']_vars

\* ----------------------------------------------------------------- C29
\* C29: while a neighbor id removed by RemoveSender has not been installed
\* again (the node was built with every neighbor installed, so these are
\* the states in which id is not in senders), no resend leaves id as
\* hops[1] of the retained fragment it resends, whatever flood replies
\* have been absorbed since the removal.
C29_RemovedNeverFirstHop ==
    [][\A S \in Sessions, i \in FragmentIndexes, id \in Drones :
           (Resends(S, i) /\ id \notin senders /\ IsRetained(S, i)') =>
               LET hops == RetainedPacket(S, i)'.routing_header.hops
               IN  ~(Len(hops) >= 2 /\ At(hops, 1) = id)]_vars

\* ----------------------------------------------------------------- C28
\* C28: a step that resends a retained fragment (S, i) for a Dropped Nack
\* and finds no path to its destination, outside the cooldown, sends a
\* FloodRequest to every installed neighbor.
C28_NoPathFloods ==
    [][\A S \in Sessions, i \in FragmentIndexes :
           (/\ Resends(S, i)
            /\ HandlesAbout("Nack", S, i)
            /\ RouteOf(RetainedPacket(S, i)) = <<>>
            /\ ~InCooldown) =>
               \A n \in senders : OfKind(out'[n], "FloodRequest") # <<>>]_vars

\* ----------------------------------------------------------------- C30
\* C30: every session id in the retention mapping maps to a non-empty list
\* of fragments; a session whose last retained fragment has been acked is
\* therefore absent from the mapping.
C30_NoEmptySession ==
    \A S \in DOMAIN sent_packets : sent_packets[S] # <<>>

\* An Ack has been handled for a session that retains nothing any more,
\* while another session still has fragments retained.
C30_Witness ==
    /\ HandledPacket("Ack")
    /\ ev.packet.session_id \notin DOMAIN sent_packets
    /\ sent_packets # EmptyMap
    /\ handled = MaxHandled

C33_DroppedKeepsGraphAndFragment ==
    [][\A S \in Sessions, i \in FragmentIndexes :
           (/\ HandlesAbout("Nack", S, i)
            /\ ev'.packet.pack_type.nack_type = Dropped
            /\ IsRetained(S, i)) =>
               /\ topology' = topology
               /\ IsRetained(S, i)'
               /\ Len(RetainedNow(S)') = Len(RetainedNow(S))]_vars

\* A Dropped Nack has been handled for a retained fragment, which has been
\* sent again and is still retained, in a graph that has edges.
C33_Witness ==
    \E S \in Sessions, i \in FragmentIndexes :
        /\ HandledPacket("Nack")
        /\ ev.packet.pack_type.nack_type = Dropped
        /\ ev.packet.session_id = S
        /\ ev.packet.pack_type.fragment_index = i
        /\ IsRetained(S, i)
        /\ \E n \in Drones : RetainedPacket(S, i) \in Range(out[n])
        /\ Adj(topology, server_id) # {}

\* ----------------------------------------------------------------- C34
\* C34: a FloodResponse is handed to a channel only by a step that handles
\* a FloodResponse whose path_trace does not start at this node, and it is
\* that reply; a step that handles a FloodRequest with a path_trace, seen
\* before or not, hands the request (and nothing else) once to every
\* installed neighbor but the one it came from, so nothing at all when that
\* one is the only neighbor.
C34_NoReplyOriginated ==
    [][/\ \A n \in Drones : \A k \in 1..Len(out'[n]) :
              (out'[n] # out[n] /\ out'[n][k].pack_type.kind = "FloodResponse") =>
                  /\ HandlesPacket("FloodResponse")
                  /\ Foreign(ev'.packet)
                  /\ out'[n][k].pack_type = ev'.packet.pack_type
       /\ (HandlesPacket("FloodRequest") /\ ev'.packet.pack_type.path_trace # <<>>) =>
              \A n \in Drones :
                  IF n \in senders /\ n # Last(ev'.packet.pack_type.path_trace)[1]
                  THEN /\ Len(out'[n]) = 1
                       /\ out'[n][1].pack_type.kind = "FloodRequest"
                       /\ out'[n][1].pack_type.flood_id = ev'.packet.pack_type.flood_id
                  ELSE out'[n] = <<>>]_vars

\* A FloodRequest that came from the only installed neighbor has been
\* handled, after another event: nothing has been sent and the node runs.
C34_Witness ==
    /\ HandledPacket("FloodRequest")
    /\ ev.packet.pack_type.path_trace # <<>>
    /\ senders = {Last(ev.packet.pack_type.path_trace)[1]}
    /\ NothingSent
    /\ ~crashed
    /\ handled >= 2

\* ----------------------------------------------------------------- C35
\* C35: when a request fragment has been handled, the response fragments
\* handed to a neighbor's channel are in ascending index order: the k-th of
\* them (from 1) has fragment index k - 1, and they are all the fragments
\* of the message.
C35_FragmentsInIndexOrder ==
    HandledPacket("MsgFragment") =>
        \A n \in Drones :
            LET sent == OfKind(out[n], "MsgFragment")
            IN  \A k \in 1..Len(sent) :
                    /\ sent[k].pack_type.fragment_index = k - 1
                    /\ sent[k].pack_type.total_n_fragments = Len(sent)

\* A response of two fragments has been handed to a channel, after the Ack
\* of the request.
C35_Witness ==
    /\ HandledPacket("MsgFragment")
    /\ \E n \in Drones :
           /\ Len(out[n]) = 3
           /\ out[n][1].pack_type.kind = "Ack"
           /\ Len(OfKind(out[n], "MsgFragment")) = 2

\* ----------------------------------------------------------------- C36
\* C36: in every reachable state, the hops of every retained fragment end
\* at the client whose request produced it (the requests of the model all
\* come from Client): no resend, with or without a route, leaves a retained
\* fragment without its destination.
C36_DestinationKept ==
    \A S \in DOMAIN sent_packets : \A k \in 1..Len(sent_packets[S]) :
        LET hops == sent_packets[S][k].routing_header.hops
        IN  hops # <<>> /\ Last(hops) = Client

\* ----------------------------------------------------------------- C37
\* C37: a retained fragment (S, i) leaves the retention only in a step that
\* handles an Ack{i} for session S: no other packet, no command, no start
\* and no drain of the retry set takes it out.
C37_OnlyAckReleases ==
    [][\A S \in Sessions, i \in FragmentIndexes :
           (IsRetained(S, i) /\ ~IsRetained(S, i)') => HandlesAbout("Ack", S, i)]_vars

\* The drain that follows a Nack for a retained fragment has run and the
\* node goes on: the fragment is still retained.
C37_Witness ==
    \E S \in Sessions, i \in FragmentIndexes :
        /\ pc = "drained"
        /\ NackAbout(S, i)
        /\ IsRetained(S, i)
        /\ ~FoundNoPath(S, i)
        /\ ~crashed

\* ----------------------------------------------------------------- C38
\* C38: the FloodRequest packets of one flood initiation carry the same
\* flood_id: after the start of run(), or the handling of a Nack, any two
\* FloodRequests of this node in the packets just sent have equal flood ids.
C38_OneFloodId ==
    (pc = "handled" /\ (ev.kind = "Start" \/ HandledPacket("Nack"))) =>
        \A n, m \in Drones :
            \A k \in 1..Len(out[n]), l \in 1..Len(out[m]) :
                (/\ out[n][k].pack_type.kind = "FloodRequest"
                 /\ out[m][l].pack_type.kind = "FloodRequest") =>
                    out[n][k].pack_type.flood_id = out[m][l].pack_type.flood_id

\* ----------------------------------------------------------------- C39
\* C39: a packet waiting in the data channel is eventually handled, also
\* when the supervisor has dropped its end of the control channel: whenever
\* the data channel holds a packet, later on it holds none (or the node has
\* panicked).
C39_PendingPacketHandled ==
    (receiver # <<>>) ~> (receiver = <<>> \/ crashed)

\* ----------------------------------------------------------------- C40
\* A fragment whose routing header has fewer than two hops, or a
\* FloodRequest whose path_trace is empty.
MalformedInbound(packet) ==
    \/ /\ packet.pack_type.kind = "MsgFragment"
       /\ Len(packet.routing_header.hops) < 2
    \/ /\ packet.pack_type.kind = "FloodRequest"
       /\ packet.pack_type.path_trace = <<>>

\* C40: handling a malformed inbound packet does not terminate the node:
\* a step of a running node that handles a fragment with fewer than two
\* hops, or a FloodRequest with an empty path_trace, leaves the node
\* running.
C40_MalformedInboundSurvived ==
    [][\A packet \in FragmentPackets \cup FloodRequestPackets :
           (HandlesThis(packet) /\ MalformedInbound(packet) /\ ~crashed)
               => ~crashed']_vars

====
